---- MODULE Spec2Model ----
(***************************************************************************)
(* A model of caseta_listener: the hub line codec (caseta/message.rs), the *)
(* router loop that feeds button events to the per-remote watchers         *)
(* (main.rs, watch_caseta_events), the remote watcher state machine and    *)
(* its timer task (caseta/remote.rs) and the device action dispatcher      *)
(* (client/dispatcher.rs).                                                 *)
(*                                                                         *)
(* Time is in milliseconds.  Timers are ideal: a sleep ends exactly when   *)
(* its duration has elapsed, a send on the channel takes no time, and the  *)
(* order of everything that happens at one instant is free.                *)
(***************************************************************************)
EXTENDS Integers, Sequences, FiniteSets, TLC

VARIABLES
    now,             \* the clock (Instant::now()), in ms
    watchers,        \* every RemoteWatcher created so far, with its task's position
    remote_watchers, \* the router's table: remote id -> index in watchers, 0 = vacant
    channel,         \* every DeviceActionMessage sent on action_sender, in send order
    router_alive,    \* FALSE once the router loop has panicked
    nevents,         \* number of ButtonEvents the router has taken
    last_event,      \* the ButtonEvent the router took last
    codec_pc,        \* "idle", "read" (a line is at hand) or "parsed"
    codec_line,      \* the line handed to Message::from_str, a sequence of characters
    codec_wire,      \* the ids the hub put on that line, None for any other line
    codec_result,    \* what from_str made of the line
    received,        \* number of messages of channel the dispatcher has taken
    cache,           \* current_scene_cache: the room's CurrentRoomState, {} when absent
    light,           \* the room's grouped light on the bridge: on and brightness
    calls,           \* every request the dispatcher made through the HueClient, in order
    dispatcher_alive, \* FALSE once dispatcher_loop has returned an error or panicked
    in_flight,       \* TRUE while dispatcher_loop awaits the handler of the message it took
    waiters,         \* the tasks suspended in action_sender.send, in the order they began to wait
    product_name,    \* the product name handed to InternalHueDeviceKind::from_str, a sequence of characters
    device_kind,     \* what from_str made of the product name
    scenario,        \* the button events the hub is about to write
    topology,        \* the kind of the remote, fixed at startup
    room,            \* the Room of the remote, fixed at startup: its scenes
    overflow_checks, \* whether the build panics on integer overflow, or wraps
    conn_pc,         \* where the main task is: in the router loop or inside await_message
    read_connection_manager, \* the socket await_message reads from, 0 for None
    sockets,         \* every socket opened so far, with its halves and keep-alive task
    returned,        \* the last result await_message returned, and the socket read
    conn_returned,   \* number of results await_message returned to the router
    conn_skipped     \* number of results the router handled that were no ButtonEvent

recVars == <<now, watchers, remote_watchers, channel, router_alive, nevents, last_event>>
codecVars == <<codec_pc, codec_line, codec_wire, codec_result>>
dispVars == <<received, cache, light, calls, dispatcher_alive, in_flight>>
connVars == <<conn_pc, read_connection_manager, sockets, returned, conn_returned, conn_skipped>>
configVars == <<topology, room, overflow_checks>>
senderVars == <<waiters>>
kindVars == <<product_name, device_kind>>

vars == <<recVars, codecVars, dispVars, connVars, scenario, configVars, senderVars, kindVars>>

notRec == <<codecVars, dispVars, connVars, scenario, configVars, senderVars, kindVars>>
notCodec == <<recVars, dispVars, connVars, scenario, configVars, senderVars, kindVars>>
notDisp == <<recVars, codecVars, connVars, scenario, configVars, senderVars, kindVars>>
notConn == <<recVars, codecVars, dispVars, scenario, configVars, senderVars, kindVars>>

----------------------------------------------------------------------------
(* Bounds of the model *)

StepsPerTick == 2
HorizonTicks == 12
MaxEvents == 5
MaxWatchers == 3
(* the parts one percent of brightness is counted in *)
Resolution == 10
MaxScenes == 3

(* caseta/remote.rs *)
DOUBLE_CLICK_WINDOW == 500
REMOTE_WATCHER_LOOP_SLEEP_DURATION == 500
REMOTE_WATCHER_LOOP_MAXIMUM_DURATION == 5000

TimeStep == REMOTE_WATCHER_LOOP_SLEEP_DURATION \div StepsPerTick
MaxTime == HorizonTicks * REMOTE_WATCHER_LOOP_SLEEP_DURATION

RemoteIds == {7}
ButtonIds == {"PowerOn", "Up", "Favorite", "Down", "PowerOff"}
EventButtons == {"Up", "Down"}
ButtonActions == {"Press", "Release"}
ButtonStates == {"FirstPressAwaitingRelease", "FirstPressAndFirstRelease",
                 "SecondPressAwaitingRelease", "SecondPressAndSecondRelease"}
DeviceActions == {"SinglePressComplete", "DoublePressComplete", "LongPressStart",
                  "LongPressOngoing", "LongPressComplete"}
None == "None"

Min(S) == CHOOSE x \in S : \A y \in S : x <= y
Max(S) == CHOOSE x \in S : \A y \in S : x >= y

(* Option<T>: None is the empty set, Some(x) the set of x alone *)
Nothing == {}
Some(x) == {x}
unwrap(o) == CHOOSE x \in o : TRUE

----------------------------------------------------------------------------
(* caseta/remote.rs: RemoteHistory *)

RemoteHistoryNew(button_id, t) ==
    [button_id |-> button_id, button_state |-> None, finished |-> FALSE,
     tracking_started_at |-> t]

next_button_state(s) ==
    CASE s = "FirstPressAwaitingRelease" -> "FirstPressAndFirstRelease"
      [] s = "FirstPressAndFirstRelease" -> "SecondPressAwaitingRelease"
      [] s = "SecondPressAwaitingRelease" -> "SecondPressAndSecondRelease"
      [] s = "SecondPressAndSecondRelease" -> "SecondPressAndSecondRelease"

incrementAnyButton(h, button_id, button_action) ==
    IF h.button_state = None
    THEN IF button_action = "Press"
         THEN [h EXCEPT !.button_state = "FirstPressAwaitingRelease"]
         ELSE h
    ELSE IF \/ h.button_state = "FirstPressAwaitingRelease" /\ button_action = "Release"
            \/ h.button_state = "FirstPressAndFirstRelease" /\ button_action = "Press"
            \/ h.button_state = "SecondPressAwaitingRelease" /\ button_action = "Release"
         THEN [h EXCEPT !.button_state = next_button_state(h.button_state)]
         ELSE h

incrementCounting(h, button_id, button_action) ==
    IF button_id # h.button_id THEN h
    ELSE IF h.button_state = None
    THEN IF button_action = "Press"
         THEN [h EXCEPT !.button_state = "FirstPressAwaitingRelease"]
         ELSE h
    ELSE [h EXCEPT !.button_state = next_button_state(h.button_state)]

increment(h, button_id, button_action) ==
    IF button_id # h.button_id THEN h
    ELSE IF h.button_state = None
    THEN IF button_action = "Press"
         THEN [h EXCEPT !.button_state = "FirstPressAwaitingRelease"]
         ELSE h
    ELSE IF \/ h.button_state = "FirstPressAwaitingRelease" /\ button_action = "Release"
            \/ h.button_state = "FirstPressAndFirstRelease" /\ button_action = "Press"
            \/ h.button_state = "SecondPressAwaitingRelease" /\ button_action = "Release"
         THEN [h EXCEPT !.button_state = next_button_state(h.button_state)]
         ELSE h

is_finishedDeadlineOnly(h, t) ==
    t - h.tracking_started_at >= REMOTE_WATCHER_LOOP_MAXIMUM_DURATION

is_finishedFlagOnly(h, t) ==
    h.finished

is_finished(h, t) ==
    h.finished \/ t - h.tracking_started_at >= REMOTE_WATCHER_LOOP_MAXIMUM_DURATION

----------------------------------------------------------------------------
(* A watcher: the RemoteWatcher (remote_id, button_id, the shared           *)
(* RemoteHistory h and whether its mutex is poisoned) together with the     *)
(* task running remote_watcher_loop on it: pc is the task's position, wake  *)
(* the instant its current sleep ends, device_action_message and            *)
(* loop_finished the task's two locals.                                     *)

Stopped == {"done", "panicked"}

RemoteWatcherNew(remote_id, button_id, t) ==
    [remote_id |-> remote_id,
     button_id |-> button_id,
     h |-> RemoteHistoryNew(button_id, t),
     poisoned |-> FALSE]

(* tokio::spawn(remote_watcher_loop(watcher)): the task starts its first   *)
(* sleep with its locals unset.                                             *)
SpawnTask(w, t) ==
    [remote_id |-> w.remote_id,
     button_id |-> w.button_id,
     h |-> w.h,
     poisoned |-> w.poisoned,
     pc |-> "first_sleep",
     wake |-> t + DOUBLE_CLICK_WINDOW,
     device_action_message |-> None,
     loop_finished |-> FALSE]

DeviceActionMessageNew(w, device_action) ==
    [device_action |-> device_action,
     remote_id |-> watchers[w].remote_id,
     button_id |-> watchers[w].button_id,
     from |-> w]

----------------------------------------------------------------------------
(* main.rs, watch_caseta_events: the router takes one ButtonEvent.  The     *)
(* table is keyed by remote id; RouterTake records the event taken.         *)

RouterTake(r, b, a) ==
    /\ router_alive
    /\ nevents < MaxEvents
    /\ nevents' = nevents + 1
    /\ last_event' = [remote_id |-> r, button_id |-> b, button_action |-> a]
    /\ UNCHANGED <<now, channel, notRec>>

(* A new RemoteWatcher takes the event, replaces the table entry and its   *)
(* remote_watcher_loop task is spawned.                                     *)
InsertAndSpawn(r, b, a) ==
    /\ Len(watchers) < MaxWatchers
    /\ LET remote_watcher == RemoteWatcherNew(r, b, now)
           taken == [remote_watcher EXCEPT !.h = increment(@, b, a)]
       IN watchers' = Append(watchers, SpawnTask(taken, now))
    /\ remote_watchers' = [remote_watchers EXCEPT ![r] = Len(watchers) + 1]

RouterVacantRelease(r, b) ==
    /\ remote_watchers[r] = 0
    /\ RouterTake(r, b, "Release")
    /\ UNCHANGED <<watchers, remote_watchers, router_alive>>

RouterVacantPress(r, b) ==
    /\ remote_watchers[r] = 0
    /\ RouterTake(r, b, "Press")
    /\ InsertAndSpawn(r, b, "Press")
    /\ UNCHANGED router_alive

RouterOccupiedFinished(r, b, a) ==
    /\ remote_watchers[r] # 0
    /\ ~watchers[remote_watchers[r]].poisoned
    /\ is_finished(watchers[remote_watchers[r]].h, now)
    /\ RouterTake(r, b, a)
    /\ InsertAndSpawn(r, b, a)
    /\ UNCHANGED router_alive

RouterOccupiedUnfinished(r, b, a) ==
    /\ remote_watchers[r] # 0
    /\ ~watchers[remote_watchers[r]].poisoned
    /\ ~is_finished(watchers[remote_watchers[r]].h, now)
    /\ RouterTake(r, b, a)
    /\ watchers' = [watchers EXCEPT ![remote_watchers[r]].h = increment(@, b, a)]
    /\ UNCHANGED <<remote_watchers, router_alive>>

(* remote_history.lock().unwrap() on a mutex poisoned by a panicked task:   *)
(* the router loop panics.                                                  *)
RouterLockPoisoned(r, b, a) ==
    /\ remote_watchers[r] # 0
    /\ watchers[remote_watchers[r]].poisoned
    /\ router_alive
    /\ nevents < MaxEvents
    /\ nevents' = nevents + 1
    /\ last_event' = [remote_id |-> r, button_id |-> b, button_action |-> a]
    /\ router_alive' = FALSE
    /\ UNCHANGED <<now, channel, watchers, remote_watchers, notRec>>

----------------------------------------------------------------------------
(* caseta/remote.rs, remote_watcher_loop *)

first_passLongPressStart(w, t) ==
    LET s == w.h.button_state
        message == CASE s = "FirstPressAndFirstRelease" -> "SinglePressComplete"
                     [] s = "SecondPressAndSecondRelease" -> "DoublePressComplete"
                     [] s = "FirstPressAwaitingRelease" -> "LongPressStart"
                     [] OTHER -> None
        h2 == IF s \in {"FirstPressAndFirstRelease", "SecondPressAndSecondRelease"}
              THEN [w.h EXCEPT !.finished = TRUE]
              ELSE w.h
    IN [w EXCEPT !.h = h2,
                 !.device_action_message = message,
                 !.loop_finished = is_finished(h2, t)]

(* The block under the lock of the first pass: the message chosen, the     *)
(* finished flag, and the local finished.                                   *)
first_pass(w, t) ==
    LET s == w.h.button_state
        message == CASE s = "FirstPressAndFirstRelease" -> "SinglePressComplete"
                     [] s = "SecondPressAndSecondRelease" -> "DoublePressComplete"
                     [] OTHER -> None
        h2 == IF s \in {"FirstPressAndFirstRelease", "SecondPressAndSecondRelease"}
              THEN [w.h EXCEPT !.finished = TRUE]
              ELSE w.h
    IN [w EXCEPT !.h = h2,
                 !.device_action_message = message,
                 !.loop_finished = is_finished(h2, t)]

(* The block under the lock of one pass of the loop.  The message of an     *)
(* earlier pass stays in device_action_message when this pass sets none.    *)
loop_pass(w, t) ==
    LET s == w.h.button_state
        message == CASE s = "FirstPressAndFirstRelease" -> "LongPressComplete"
                     [] s = "FirstPressAwaitingRelease" -> "LongPressOngoing"
                     [] s = "SecondPressAndSecondRelease" -> "DoublePressComplete"
                     [] OTHER -> w.device_action_message
        h2 == IF s \in {"FirstPressAndFirstRelease", "SecondPressAndSecondRelease"}
              THEN [w.h EXCEPT !.finished = TRUE]
              ELSE w.h
    IN [w EXCEPT !.h = h2,
                 !.device_action_message = message,
                 !.loop_finished = is_finished(h2, t)]

(* After the lock is released: send the message if there is one, then      *)
(* return if finished, else sleep again.                                    *)
AfterPass(w, t, send_pc) ==
    IF w.device_action_message # None
    THEN [w EXCEPT !.pc = send_pc]
    ELSE IF w.loop_finished
    THEN [w EXCEPT !.pc = "done"]
    ELSE [w EXCEPT !.pc = "loop_sleep", !.wake = t + REMOTE_WATCHER_LOOP_SLEEP_DURATION]

FirstCheck(i) ==
    /\ watchers[i].pc = "first_sleep"
    /\ watchers[i].wake <= now
    /\ watchers' = [watchers EXCEPT ![i] = AfterPass(first_pass(@, now), now, "first_send")]
    /\ UNCHANGED <<now, remote_watchers, channel, router_alive, nevents, last_event, notRec>>

LoopCheck(i) ==
    /\ watchers[i].pc = "loop_sleep"
    /\ watchers[i].wake <= now
    /\ watchers[i].h.button_state # None
    /\ watchers' = [watchers EXCEPT ![i] = AfterPass(loop_pass(@, now), now, "loop_send")]
    /\ UNCHANGED <<now, remote_watchers, channel, router_alive, nevents, last_event, notRec>>

(* expect("button state should have been set by now.") fails while the     *)
(* lock is held: the task panics and the mutex is poisoned.                 *)
LoopPanic(i) ==
    /\ watchers[i].pc = "loop_sleep"
    /\ watchers[i].wake <= now
    /\ watchers[i].h.button_state = None
    /\ watchers' = [watchers EXCEPT ![i].pc = "panicked", ![i].poisoned = TRUE]
    /\ UNCHANGED <<now, remote_watchers, channel, router_alive, nevents, last_event, notRec>>

(* watcher.action_sender.send(message).await, then return or sleep *)
Send(i) ==
    /\ watchers[i].pc \in {"first_send", "loop_send"}
    /\ channel' = Append(channel, DeviceActionMessageNew(i, watchers[i].device_action_message))
    /\ watchers' = [watchers EXCEPT ![i] =
                       IF @.loop_finished
                       THEN [@ EXCEPT !.pc = "done"]
                       ELSE [@ EXCEPT !.pc = "loop_sleep",
                                      !.wake = now + REMOTE_WATCHER_LOOP_SLEEP_DURATION]]
    /\ UNCHANGED <<now, remote_watchers, router_alive, nevents, last_event, notRec>>

----------------------------------------------------------------------------
(* The clock advances to the next instant of the grid, or to the end of    *)
(* the earliest sleep if that comes first; it does not pass a sleep that   *)
(* has ended nor a send in progress.  Time is let pass only while a task   *)
(* sleeps: with every task stopped each entry is finished for good, and    *)
(* nothing reads the clock but is_finished.                                 *)

Sleeping(i) == watchers[i].pc \in {"first_sleep", "loop_sleep"}

Tick ==
    /\ \E i \in 1..Len(watchers) : Sleeping(i)
    /\ \A i \in 1..Len(watchers) :
          /\ watchers[i].pc \notin {"first_send", "loop_send"}
          /\ Sleeping(i) => watchers[i].wake > now
    /\ now' = Min({now + TimeStep} \cup {watchers[i].wake : i \in {j \in 1..Len(watchers) : Sleeping(j)}})
    /\ UNCHANGED <<watchers, remote_watchers, channel, router_alive, nevents, last_event, notRec>>

Advance == now < MaxTime /\ Tick

----------------------------------------------------------------------------
(* client/dispatcher.rs and client/hue.rs: the dispatcher takes the        *)
(* messages of the channel one at a time and awaits the handler of each.   *)
(* There is one room.  A brightness is an f32 in percent, held here as a   *)
(* whole number of parts of a percent: Percent(p) is p percent.  The       *)
(* quotient of two such numbers, truncated, is their integer quotient.     *)

BRIGHTNESS_UPDATE_AMOUNT == 5
MAXIMUM_BRIGHTNESS_PERCENT == 100
MINIMUM_BRIGHTNESS_PERCENT == 1

Percent(p) == p * Resolution

get_bounded_next_higher_brightness_valNoSnap(current_value) ==
    LET next_higher_value == current_value + Percent(BRIGHTNESS_UPDATE_AMOUNT)
    IN Min({Percent(MAXIMUM_BRIGHTNESS_PERCENT), next_higher_value})

get_bounded_next_higher_brightness_val(current_value) ==
    LET quotient == current_value \div Percent(BRIGHTNESS_UPDATE_AMOUNT)
        next_higher_value == Percent(BRIGHTNESS_UPDATE_AMOUNT) * (quotient + 1)
    IN Min({Percent(MAXIMUM_BRIGHTNESS_PERCENT), next_higher_value})

get_bounded_next_lower_brightness_val(current_value) ==
    LET quotient == current_value \div Percent(BRIGHTNESS_UPDATE_AMOUNT)
        next_lower_value == Percent(BRIGHTNESS_UPDATE_AMOUNT) * (quotient - 1)
    IN Max({Percent(MINIMUM_BRIGHTNESS_PERCENT), next_lower_value})

(* CurrentRoomState of a grouped light response *)
build_cache_entry(scene, grouped_light) ==
    [scene |-> scene,
     brightness |-> IF grouped_light.on THEN Some(grouped_light.brightness) ELSE Nothing,
     on |-> grouped_light.on]

(* The requests of the HueClient, as logged in calls *)
GetGroupedLight == [request |-> "get_grouped_light", brightness |-> Nothing]
UpdateBrightness(brightness) == [request |-> "update_brightness", brightness |-> Some(brightness)]

(* The update_fn handle_up_button_press and handle_down_button_press pass *)
update_fn(button_id, current_value) ==
    IF button_id = "Up"
    THEN get_bounded_next_higher_brightness_val(current_value)
    ELSE get_bounded_next_lower_brightness_val(current_value)

target_brightnessOneStep(message, brightness) ==
    CASE message.device_action \in {"SinglePressComplete", "LongPressStart", "LongPressOngoing",
                                    "DoublePressComplete"} ->
            update_fn(message.button_id, brightness)
      [] message.device_action = "LongPressComplete" -> brightness

(* The match on message.device_action of                                   *)
(* handle_brightness_change_button_press                                    *)
target_brightness(message, brightness) ==
    CASE message.device_action \in {"SinglePressComplete", "LongPressStart", "LongPressOngoing"} ->
            update_fn(message.button_id, brightness)
      [] message.device_action = "DoublePressComplete" ->
            update_fn(message.button_id, update_fn(message.button_id, brightness))
      [] message.device_action = "LongPressComplete" -> brightness

handle_brightness_button_pressMissIsOff(message, get_ok, put_ok) ==
    LET hit == cache # Nothing
        calls1 == calls
        current_room_state == IF hit THEN unwrap(cache)
                              ELSE [scene |-> Nothing, brightness |-> Nothing, on |-> FALSE]
        unchanged == [ok |-> TRUE, calls |-> calls1, cache |-> cache, light |-> light]
    IN IF ~hit /\ ~get_ok THEN [unchanged EXCEPT !.ok = FALSE]
       ELSE IF ~current_room_state.on THEN unchanged
       ELSE IF current_room_state.brightness = Nothing THEN [unchanged EXCEPT !.ok = FALSE]
       ELSE LET target == target_brightness(message, unwrap(current_room_state.brightness))
                calls2 == Append(calls1, UpdateBrightness(target))
            IN IF ~put_ok THEN [unchanged EXCEPT !.ok = FALSE, !.calls = calls2]
               ELSE [ok |-> TRUE,
                     calls |-> calls2,
                     cache |-> Some([current_room_state EXCEPT !.brightness = Some(target)]),
                     light |-> [on |-> TRUE, brightness |-> target]]

(* handle_up_button_press and handle_down_button_press on a message:       *)
(* get_current_state (the cache entry, or on a miss the entry built from   *)
(* get_grouped_light, which is not cached), nothing for a room that is     *)
(* off, else update_brightness with the target and the cache write.        *)
(* get_ok and put_ok tell whether the two requests succeed; ok is FALSE    *)
(* when the handler returns Err or panics.                                  *)
handle_brightness_button_press(message, get_ok, put_ok) ==
    LET hit == cache # Nothing
        calls1 == IF hit THEN calls ELSE Append(calls, GetGroupedLight)
        current_room_state == IF hit THEN unwrap(cache) ELSE build_cache_entry(Nothing, light)
        unchanged == [ok |-> TRUE, calls |-> calls1, cache |-> cache, light |-> light]
    IN IF ~hit /\ ~get_ok THEN [unchanged EXCEPT !.ok = FALSE]
       ELSE IF ~current_room_state.on THEN unchanged
       ELSE IF current_room_state.brightness = Nothing THEN [unchanged EXCEPT !.ok = FALSE]
       ELSE LET target == target_brightness(message, unwrap(current_room_state.brightness))
                calls2 == Append(calls1, UpdateBrightness(target))
            IN IF ~put_ok THEN [unchanged EXCEPT !.ok = FALSE, !.calls = calls2]
               ELSE [ok |-> TRUE,
                     calls |-> calls2,
                     cache |-> Some([current_room_state EXCEPT !.brightness = Some(target)]),
                     light |-> [on |-> TRUE, brightness |-> target]]

(* The requests that turn the grouped light on and off.  turn_on answers   *)
(* with the status of the light, now on at the brightness it had.          *)
TurnOn == [request |-> "turn_on", brightness |-> Nothing]
TurnOff == [request |-> "turn_off", brightness |-> Nothing]

turn_on(grouped_light) == [grouped_light EXCEPT !.on = TRUE]

handle_power_on_button_pressSetsOn(message, get_ok, put_ok) ==
    LET hit == cache # Nothing
        calls1 == IF hit THEN calls ELSE Append(calls, GetGroupedLight)
        current_room_state == IF hit THEN unwrap(cache) ELSE build_cache_entry(Nothing, light)
        unchanged == [ok |-> TRUE, calls |-> calls1, cache |-> cache, light |-> light]
    IN IF topology = "TwoButtonPico"
       THEN [ok |-> FALSE, calls |-> calls, cache |-> cache, light |-> light]
       ELSE IF ~hit /\ ~get_ok THEN [unchanged EXCEPT !.ok = FALSE]
       ELSE IF message.device_action = "SinglePressComplete" /\ ~current_room_state.on
       THEN LET calls2 == Append(calls1, TurnOn)
                current_light_status == turn_on(light)
            IN IF ~put_ok THEN [unchanged EXCEPT !.ok = FALSE, !.calls = calls2]
               ELSE [ok |-> TRUE,
                     calls |-> calls2,
                     cache |-> Some([current_room_state EXCEPT !.on = TRUE]),
                     light |-> current_light_status]
       ELSE unchanged

(* handle_power_on_button_press: an error for a two-button remote, then    *)
(* get_current_state; a single press on a room that is off turns it on and *)
(* caches the entry built from the answer, with the scene it had.          *)
handle_power_on_button_press(message, get_ok, put_ok) ==
    LET hit == cache # Nothing
        calls1 == IF hit THEN calls ELSE Append(calls, GetGroupedLight)
        current_room_state == IF hit THEN unwrap(cache) ELSE build_cache_entry(Nothing, light)
        unchanged == [ok |-> TRUE, calls |-> calls1, cache |-> cache, light |-> light]
    IN IF topology = "TwoButtonPico"
       THEN [ok |-> FALSE, calls |-> calls, cache |-> cache, light |-> light]
       ELSE IF ~hit /\ ~get_ok THEN [unchanged EXCEPT !.ok = FALSE]
       ELSE IF message.device_action = "SinglePressComplete" /\ ~current_room_state.on
       THEN LET calls2 == Append(calls1, TurnOn)
                current_light_status == turn_on(light)
            IN IF ~put_ok THEN [unchanged EXCEPT !.ok = FALSE, !.calls = calls2]
               ELSE [ok |-> TRUE,
                     calls |-> calls2,
                     cache |-> Some(build_cache_entry(current_room_state.scene,
                                                      current_light_status)),
                     light |-> current_light_status]
       ELSE unchanged

handle_power_off_button_pressToggle(message, get_ok, put_ok) ==
    LET hit == cache # Nothing
        calls1 == IF hit THEN calls ELSE Append(calls, GetGroupedLight)
        current_room_state == IF hit THEN unwrap(cache) ELSE build_cache_entry(Nothing, light)
        unchanged == [ok |-> TRUE, calls |-> calls1, cache |-> cache, light |-> light]
    IN IF topology = "TwoButtonPico"
       THEN [ok |-> FALSE, calls |-> calls, cache |-> cache, light |-> light]
       ELSE IF ~hit /\ ~get_ok THEN [unchanged EXCEPT !.ok = FALSE]
       ELSE IF message.device_action \in {"SinglePressComplete", "DoublePressComplete",
                                          "LongPressComplete"}
       THEN LET calls2 == Append(calls1, TurnOff)
            IN IF ~put_ok THEN [unchanged EXCEPT !.ok = FALSE, !.calls = calls2]
               ELSE [ok |-> TRUE,
                     calls |-> calls2,
                     cache |-> Some([current_room_state EXCEPT !.on = ~@]),
                     light |-> [light EXCEPT !.on = FALSE]]
       ELSE unchanged

(* handle_power_off_button_press: an error for a two-button remote, then   *)
(* get_current_state; a completed press turns the light off and caches the *)
(* current state with on set to false.                                     *)
handle_power_off_button_press(message, get_ok, put_ok) ==
    LET hit == cache # Nothing
        calls1 == IF hit THEN calls ELSE Append(calls, GetGroupedLight)
        current_room_state == IF hit THEN unwrap(cache) ELSE build_cache_entry(Nothing, light)
        unchanged == [ok |-> TRUE, calls |-> calls1, cache |-> cache, light |-> light]
    IN IF topology = "TwoButtonPico"
       THEN [ok |-> FALSE, calls |-> calls, cache |-> cache, light |-> light]
       ELSE IF ~hit /\ ~get_ok THEN [unchanged EXCEPT !.ok = FALSE]
       ELSE IF message.device_action \in {"SinglePressComplete", "DoublePressComplete",
                                          "LongPressComplete"}
       THEN LET calls2 == Append(calls1, TurnOff)
            IN IF ~put_ok THEN [unchanged EXCEPT !.ok = FALSE, !.calls = calls2]
               ELSE [ok |-> TRUE,
                     calls |-> calls2,
                     cache |-> Some([current_room_state EXCEPT !.on = FALSE]),
                     light |-> [light EXCEPT !.on = FALSE]]
       ELSE unchanged

(* config/scene.rs: a Room has a sequence of scenes, a Scene a name and a   *)
(* sequence of devices.  Scene k of the configuration is named k; its       *)
(* devices are one Hue scene, or two Hue scenes around an outlet, or light  *)
(* panels alone.                                                            *)
HueScene(id) == [type |-> "HueScene", id |-> id]
WemoOutlet == [type |-> "WemoOutlet"]
NanoleafLightPanels == [type |-> "NanoleafLightPanels"]

SceneDevices(k) ==
    CASE k % 3 = 1 -> <<HueScene(<<k, 1>>)>>
      [] k % 3 = 2 -> <<HueScene(<<k, 1>>), WemoOutlet, HueScene(<<k, 3>>)>>
      [] k % 3 = 0 -> <<NanoleafLightPanels>>

SceneOf(k) == [name |-> k, devices |-> SceneDevices(k)]
RoomOf(n) == [scenes |-> [k \in 1..n |-> SceneOf(k)]]

RecallScene(id, brightness) == [request |-> "recall_scene", id |-> id, brightness |-> Some(brightness)]

(* what the choice of the target scene comes to: a scene, a return with    *)
(* nothing done, or a panic                                                 *)
SceneOk(scene) == [kind |-> "Ok", scene |-> scene]
SceneReturn == [kind |-> "Return"]
ScenePanic == [kind |-> "Panic"]

(* position of the first scene of the room with the name, from 0; none     *)
(* makes the expect panic                                                   *)
get_scene_index(current_scene) ==
    LET found == {k \in 1..Len(room.scenes) : room.scenes[k].name = current_scene.name}
    IN IF found = {} THEN Nothing ELSE Some(Min(found) - 1)

get_first_scene == room.scenes[1]

get_next_sceneNoWrap(current_scene) ==
    LET position == get_scene_index(current_scene)
        scene_count == Len(room.scenes)
    IN IF position = Nothing THEN ScenePanic
       ELSE SceneOk(room.scenes[Min({unwrap(position) + 1, scene_count - 1}) + 1])

get_next_scene(current_scene) ==
    LET position == get_scene_index(current_scene)
        scene_count == Len(room.scenes)
    IN IF position = Nothing THEN ScenePanic
       ELSE SceneOk(room.scenes[((unwrap(position) + 1) % scene_count) + 1])

RECURSIVE PowMod(_, _, _)
PowMod(b, e, n) == IF e = 0 THEN 1 % n ELSE (b * PowMod(b, e - 1, n)) % n

(* usize::MAX % n for a 64-bit usize: (2^64 - 1) mod n *)
usize_max_rem(n) == (PowMod(2, 64, n) + n - 1) % n

(* the previous scene with the remainder taken on the integers: what the   *)
(* subtraction would give if it could not overflow                          *)
get_previous_sceneEuclidean(current_scene) ==
    LET position == get_scene_index(current_scene)
        scene_count == Len(room.scenes)
    IN IF position = Nothing THEN ScenePanic
       ELSE SceneOk(room.scenes[((unwrap(position) + scene_count - 1) % scene_count) + 1])

(* (position - 1) % scene_count on usize: at position 0 the subtraction    *)
(* overflows, which panics in a build with overflow checks and wraps to    *)
(* usize::MAX in one without; get() of the remainder is in range.          *)
get_previous_scene(current_scene) ==
    LET position == get_scene_index(current_scene)
        scene_count == Len(room.scenes)
    IN IF position = Nothing THEN ScenePanic
       ELSE IF unwrap(position) = 0
       THEN IF overflow_checks THEN ScenePanic
            ELSE SceneOk(room.scenes[usize_max_rem(scene_count) + 1])
       ELSE SceneOk(room.scenes[((unwrap(position) - 1) % scene_count) + 1])

(* the choice of target_scene in handle_favorite_button_press *)
target_scene(message, current_room_state) ==
    IF current_room_state.scene = Nothing THEN SceneOk(get_first_scene)
    ELSE LET current_scene == unwrap(current_room_state.scene)
         IN CASE message.device_action = "SinglePressComplete" -> get_next_scene(current_scene)
              [] message.device_action = "DoublePressComplete" -> get_previous_scene(current_scene)
              [] message.device_action = "LongPressComplete" -> SceneOk(get_first_scene)
              [] message.device_action \in {"LongPressStart", "LongPressOngoing"} -> SceneReturn

recall_scenesEveryDevice(devices, brightness) ==
    [k \in 1..Len(devices) |-> RecallScene(<<k>>, brightness)]

(* the requests of the loop over target_scene.devices *)
recall_scenes(devices, brightness) ==
    LET hue == SelectSeq(devices, LAMBDA device : device.type = "HueScene")
    IN [k \in 1..Len(hue) |-> RecallScene(hue[k].id, brightness)]

handle_favorite_button_pressIgnoresOff(message, get_ok, put_ok) ==
    LET hit == cache # Nothing
        calls1 == IF hit THEN calls ELSE Append(calls, GetGroupedLight)
        current_room_state == IF hit THEN unwrap(cache) ELSE build_cache_entry(Nothing, light)
        unchanged == [ok |-> TRUE, calls |-> calls1, cache |-> cache, light |-> light]
    IN IF topology = "TwoButtonPico"
       THEN [ok |-> FALSE, calls |-> calls, cache |-> cache, light |-> light]
       ELSE IF ~hit /\ ~get_ok THEN [unchanged EXCEPT !.ok = FALSE]
       ELSE IF current_room_state.brightness = Nothing THEN [unchanged EXCEPT !.ok = FALSE]
       ELSE LET brightness == unwrap(current_room_state.brightness)
                target == target_scene(message, current_room_state)
            IN CASE target.kind = "Panic" -> [unchanged EXCEPT !.ok = FALSE]
                 [] target.kind = "Return" -> unchanged
                 [] target.kind = "Ok" ->
                      LET requests == recall_scenes(target.scene.devices, brightness)
                          calls2 == calls1 \o requests
                      IN IF requests # <<>> /\ ~put_ok
                         THEN [unchanged EXCEPT !.ok = FALSE, !.calls = calls2]
                         ELSE [ok |-> TRUE,
                               calls |-> calls2,
                               cache |-> Some([current_room_state
                                                 EXCEPT !.scene = Some(target.scene)]),
                               light |-> IF requests = <<>> THEN light
                                         ELSE [on |-> TRUE, brightness |-> brightness]]

(* handle_favorite_button_press: an error for a two-button remote, then    *)
(* get_current_state; nothing for a room that is off; else the target      *)
(* scene, recall_scene at the current brightness for each Hue scene among  *)
(* its devices, and the cache write of the scene.  When put_ok is FALSE    *)
(* the last of these requests fails.                                        *)
handle_favorite_button_press(message, get_ok, put_ok) ==
    LET hit == cache # Nothing
        calls1 == IF hit THEN calls ELSE Append(calls, GetGroupedLight)
        current_room_state == IF hit THEN unwrap(cache) ELSE build_cache_entry(Nothing, light)
        unchanged == [ok |-> TRUE, calls |-> calls1, cache |-> cache, light |-> light]
    IN IF topology = "TwoButtonPico"
       THEN [ok |-> FALSE, calls |-> calls, cache |-> cache, light |-> light]
       ELSE IF ~hit /\ ~get_ok THEN [unchanged EXCEPT !.ok = FALSE]
       ELSE IF ~current_room_state.on THEN unchanged
       ELSE IF current_room_state.brightness = Nothing THEN [unchanged EXCEPT !.ok = FALSE]
       ELSE LET brightness == unwrap(current_room_state.brightness)
                target == target_scene(message, current_room_state)
            IN CASE target.kind = "Panic" -> [unchanged EXCEPT !.ok = FALSE]
                 [] target.kind = "Return" -> unchanged
                 [] target.kind = "Ok" ->
                      LET requests == recall_scenes(target.scene.devices, brightness)
                          calls2 == calls1 \o requests
                      IN IF requests # <<>> /\ ~put_ok
                         THEN [unchanged EXCEPT !.ok = FALSE, !.calls = calls2]
                         ELSE [ok |-> TRUE,
                               calls |-> calls2,
                               cache |-> Some([current_room_state
                                                 EXCEPT !.scene = Some(target.scene)]),
                               light |-> IF requests = <<>> THEN light
                                         ELSE [on |-> TRUE, brightness |-> brightness]]

(* the match on message.button_id of dispatcher_loop *)
handle_button_press(message, get_ok, put_ok) ==
    CASE message.button_id = "PowerOn" -> handle_power_on_button_press(message, get_ok, put_ok)
      [] message.button_id = "PowerOff" -> handle_power_off_button_press(message, get_ok, put_ok)
      [] message.button_id \in {"Up", "Down"} ->
            handle_brightness_button_press(message, get_ok, put_ok)
      [] message.button_id = "Favorite" ->
            handle_favorite_button_press(message, get_ok, put_ok)

(* message_receiver.recv(): dispatcher_loop takes the next message of the  *)
(* channel and awaits its handler                                           *)
Recv ==
    /\ dispatcher_alive
    /\ ~in_flight
    /\ received < Len(channel)
    /\ in_flight' = TRUE
    /\ UNCHANGED <<received, cache, light, calls, dispatcher_alive, notDisp>>

(* The rest of the pass of dispatcher_loop on the message it took: the     *)
(* handler returns, then for SinglePressComplete one more                  *)
(* get_grouped_light, unwrapped.                                            *)
Dispatch(get_ok, put_ok, tail_ok) ==
    /\ dispatcher_alive
    /\ in_flight
    /\ received < Len(channel)
    /\ LET message == channel[received + 1]
           r == handle_button_press(message, get_ok, put_ok)
           tail == r.ok /\ message.device_action = "SinglePressComplete"
       IN /\ in_flight' = FALSE
          /\ received' = received + 1
          /\ cache' = r.cache
          /\ light' = r.light
          /\ calls' = IF tail THEN Append(r.calls, GetGroupedLight) ELSE r.calls
          /\ dispatcher_alive' = (r.ok /\ (tail => tail_ok))
    /\ UNCHANGED notDisp

----------------------------------------------------------------------------

NoEvent == [remote_id |-> 0, button_id |-> None, button_action |-> None]

NoWire == [remote_id |-> -1, button_id |-> -1, action_id |-> -1]
NoResult == [kind |-> None]

CodecIdle ==
    /\ codec_pc = "idle"
    /\ codec_line = <<>>
    /\ codec_wire = NoWire
    /\ codec_result = NoResult
    /\ product_name = <<>>
    /\ device_kind = NoResult

RouterIdle ==
    /\ now = 0
    /\ watchers = <<>>
    /\ remote_watchers = [r \in RemoteIds |-> 0]
    /\ channel = <<>>
    /\ waiters = <<>>
    /\ router_alive = TRUE
    /\ nevents = 0
    /\ last_event = NoEvent

NoScenario == [button_id |-> None, release_at |-> 0,
               light |-> [on |-> TRUE, brightness |-> Percent(50)]]

DispatcherIdle ==
    /\ received = 0
    /\ calls = <<>>
    /\ dispatcher_alive = TRUE
    /\ in_flight = FALSE

NoReturn == [result |-> [kind |-> None], socket |-> 0]

ConnectionIdle ==
    /\ conn_pc = "idle"
    /\ read_connection_manager = 0
    /\ sockets = <<>>
    /\ returned = NoReturn
    /\ conn_returned = 0
    /\ conn_skipped = 0

Init ==
    /\ CodecIdle
    /\ RouterIdle
    /\ DispatcherIdle
    /\ ConnectionIdle
    /\ cache = Nothing
    /\ topology = "FiveButtonPico"
    /\ room = RoomOf(1)
    /\ overflow_checks = TRUE
    /\ scenario = NoScenario
    /\ light = scenario.light

Next ==
    \/ \E r \in RemoteIds, b \in EventButtons : RouterVacantRelease(r, b)
    \/ \E r \in RemoteIds, b \in EventButtons : RouterVacantPress(r, b)
    \/ \E r \in RemoteIds, b \in EventButtons, a \in ButtonActions : RouterOccupiedFinished(r, b, a)
    \/ \E r \in RemoteIds, b \in EventButtons, a \in ButtonActions : RouterOccupiedUnfinished(r, b, a)
    \/ \E r \in RemoteIds, b \in EventButtons, a \in ButtonActions : RouterLockPoisoned(r, b, a)
    \/ \E i \in 1..Len(watchers) : FirstCheck(i)
    \/ \E i \in 1..Len(watchers) : LoopCheck(i)
    \/ \E i \in 1..Len(watchers) : LoopPanic(i)
    \/ \E i \in 1..Len(watchers) : Send(i)
    \/ Advance

Spec == Init /\ [][Next]_vars

----------------------------------------------------------------------------
(* A press and hold of Up or Down: the hub writes the Press at t = 0 and   *)
(* the Release at release_at, the router takes each the instant it is      *)
(* written, and the dispatcher serves the channel.  The room starts with   *)
(* the light of the scenario, cached or not.                                *)

S2ReleaseTimes == {500, 1000, 1500, 2000, 2500}
S2Lights ==
    {[on |-> TRUE, brightness |-> Percent(b)] : b \in {50, 47, 8, 97}}
    \cup {[on |-> FALSE, brightness |-> Percent(50)]}

InitS2 ==
    /\ CodecIdle
    /\ RouterIdle
    /\ DispatcherIdle
    /\ ConnectionIdle
    /\ topology = "FiveButtonPico"
    /\ room = RoomOf(1)
    /\ overflow_checks = TRUE
    /\ scenario \in [button_id : {"Up", "Down"}, release_at : S2ReleaseTimes, light : S2Lights]
    /\ light = scenario.light
    /\ cache \in {Nothing, Some(build_cache_entry(Nothing, light))}

S2Press ==
    /\ nevents = 0
    /\ \E r \in RemoteIds : RouterVacantPress(r, scenario.button_id)

(* The entry is live when the Release comes: fewer than 5 s have passed    *)
(* and no pass of the task has seen a Release.                              *)
S2Release ==
    /\ nevents = 1
    /\ now = scenario.release_at
    /\ \E r \in RemoteIds : RouterOccupiedUnfinished(r, scenario.button_id, "Release")

S2Advance ==
    /\ nevents >= 1
    /\ nevents = 1 => now < scenario.release_at
    /\ Advance

NextS2 ==
    \/ S2Press
    \/ S2Release
    \/ \E i \in 1..Len(watchers) : FirstCheck(i)
    \/ \E i \in 1..Len(watchers) : LoopCheck(i)
    \/ \E i \in 1..Len(watchers) : Send(i)
    \/ S2Advance
    \/ Recv
    \/ \E get_ok \in BOOLEAN, put_ok \in BOOLEAN, tail_ok \in BOOLEAN : Dispatch(get_ok, put_ok, tail_ok)

SpecS2 == InitS2 /\ [][NextS2]_vars

----------------------------------------------------------------------------
(* Properties of the router and the watchers, checked under Spec *)

Terminal == {"SinglePressComplete", "DoublePressComplete", "LongPressComplete"}

Watchers == 1..Len(watchers)

(* The messages watcher i has sent, in order *)
Sent(i) == SelectSeq(channel, LAMBDA m : m.from = i)

(* The step is the router taking a ButtonEvent (then last_event' is it) *)
RouterStep == nevents' = nevents + 1

(* The table entry of remote r is present and the router finds it live *)
EntryLive(r) ==
    /\ remote_watchers[r] # 0
    /\ ~watchers[remote_watchers[r]].poisoned
    /\ ~is_finished(watchers[remote_watchers[r]].h, now)

(* The router finds no entry for r, or a finished one *)
EntryMissingOrFinished(r) ==
    \/ remote_watchers[r] = 0
    \/ /\ ~watchers[remote_watchers[r]].poisoned
       /\ is_finished(watchers[remote_watchers[r]].h, now)

(* C1: the messages of one watcher are zero or more LongPressOngoing, then *)
(* at most one of SinglePressComplete, DoublePressComplete and             *)
(* LongPressComplete, and nothing after it; LongPressStart is never sent.  *)
C1_EmissionShape ==
    \A i \in Watchers :
        LET s == Sent(i) IN
        \A k \in 1..Len(s) :
            /\ s[k].device_action # "LongPressStart"
            /\ k < Len(s) => s[k].device_action = "LongPressOngoing"
            /\ k = Len(s) => s[k].device_action \in Terminal \cup {"LongPressOngoing"}

C1_Witness ==
    \E i \in Watchers :
        /\ watchers[i].pc = "done"
        /\ Len(Sent(i)) = 3
        /\ Sent(i)[1].device_action = "LongPressOngoing"
        /\ Sent(i)[2].device_action = "LongPressOngoing"
        /\ Sent(i)[3].device_action = "LongPressComplete"

(* What a pass over watcher i does, read off a step *)
FirstPassStep(i) == watchers[i].pc = "first_sleep" /\ watchers'[i].pc # "first_sleep"
LoopPassStep(i) ==
    /\ watchers[i].pc = "loop_sleep"
    /\ (watchers'[i].pc # "loop_sleep" \/ watchers'[i].wake # watchers[i].wake)
SendStep(i) == watchers[i].pc \in {"first_send", "loop_send"} /\ watchers'[i].pc # watchers[i].pc

(* The pass hands exactly message a to the channel, sets finished, stops *)
SendsAndStops(i, a, send_pc) ==
    /\ watchers'[i].pc = send_pc
    /\ watchers'[i].device_action_message = a
    /\ watchers'[i].h.finished
    /\ watchers'[i].loop_finished
    /\ channel' = channel

(* The pass hands exactly message a to the channel and goes on *)
SendsAndContinues(i, a, send_pc) ==
    /\ watchers'[i].pc = send_pc
    /\ watchers'[i].device_action_message = a
    /\ ~watchers'[i].loop_finished
    /\ channel' = channel

SendsNothingAndContinues(i) ==
    /\ watchers'[i].pc = "loop_sleep"
    /\ channel' = channel

(* The send that follows a pass puts exactly the message chosen on the     *)
(* channel, and the task then stops if the pass said so, else sleeps again *)
SendDelivers(i) ==
    /\ channel' = Append(channel, [device_action |-> watchers[i].device_action_message,
                                   remote_id |-> watchers[i].remote_id,
                                   button_id |-> watchers[i].button_id,
                                   from |-> i])
    /\ watchers'[i].pc = IF watchers[i].loop_finished THEN "done" ELSE "loop_sleep"

FirstPassTable(i) ==
    LET s == watchers[i].h.button_state IN
    /\ s = "FirstPressAndFirstRelease" => SendsAndStops(i, "SinglePressComplete", "first_send")
    /\ s = "SecondPressAndSecondRelease" => SendsAndStops(i, "DoublePressComplete", "first_send")
    /\ s = "FirstPressAwaitingRelease" => SendsNothingAndContinues(i)

(* C2 as stated: at every later tick FirstPressAwaitingRelease sends       *)
(* LongPressOngoing and continues.                                          *)
C2_TickTableAsStated ==
    [][\A i \in Watchers :
          /\ FirstPassStep(i) => FirstPassTable(i)
          /\ LoopPassStep(i) =>
                LET s == watchers[i].h.button_state IN
                /\ s = "FirstPressAwaitingRelease" => SendsAndContinues(i, "LongPressOngoing", "loop_send")
                /\ s = "FirstPressAndFirstRelease" => SendsAndStops(i, "LongPressComplete", "loop_send")
                /\ s = "SecondPressAndSecondRelease" => SendsAndStops(i, "DoublePressComplete", "loop_send")
          /\ SendStep(i) => SendDelivers(i)]_vars

(* C2, amended: the message of a tick is fixed by the state read under the *)
(* lock, as tabulated; at a later tick FirstPressAwaitingRelease sends     *)
(* LongPressOngoing and continues unless 5 s have elapsed since            *)
(* tracking_started_at, and then the task stops after that send.           *)
C2_TickTable ==
    [][\A i \in Watchers :
          /\ FirstPassStep(i) => FirstPassTable(i)
          /\ LoopPassStep(i) =>
                LET s == watchers[i].h.button_state IN
                /\ s = "FirstPressAwaitingRelease" =>
                      /\ watchers'[i].pc = "loop_send"
                      /\ watchers'[i].device_action_message = "LongPressOngoing"
                      /\ ~watchers'[i].h.finished
                      /\ watchers'[i].loop_finished =
                            (now - watchers[i].h.tracking_started_at >= REMOTE_WATCHER_LOOP_MAXIMUM_DURATION)
                      /\ channel' = channel
                /\ s = "FirstPressAndFirstRelease" => SendsAndStops(i, "LongPressComplete", "loop_send")
                /\ s = "SecondPressAndSecondRelease" => SendsAndStops(i, "DoublePressComplete", "loop_send")
          /\ SendStep(i) => SendDelivers(i)]_vars

(* A long press that ran into the deadline: its last LongPressOngoing was  *)
(* sent at 5 s and the task stopped without a terminal message.            *)
C2_Witness ==
    \E i \in Watchers :
        /\ watchers[i].pc = "done"
        /\ watchers[i].h.button_state = "FirstPressAwaitingRelease"
        /\ Len(Sent(i)) = 9
        /\ \E j \in Watchers :
              /\ watchers[j].pc = "done"
              /\ Len(Sent(j)) = 1
              /\ Sent(j)[1].device_action = "SinglePressComplete"

IngestTable(state, action) ==
    CASE state = None /\ action = "Press" -> "FirstPressAwaitingRelease"
      [] state = "FirstPressAwaitingRelease" /\ action = "Release" -> "FirstPressAndFirstRelease"
      [] state = "FirstPressAndFirstRelease" /\ action = "Press" -> "SecondPressAwaitingRelease"
      [] state = "SecondPressAwaitingRelease" /\ action = "Release" -> "SecondPressAndSecondRelease"
      [] OTHER -> state

(* C4: an event on the watched button moves the state of a live entry, or  *)
(* of a fresh one, exactly as tabulated, and SecondPressAndSecondRelease   *)
(* is never left.                                                           *)
C4_IngestTable ==
    [][/\ RouterStep =>
            LET e == last_event'
                i == remote_watchers[e.remote_id]
            IN /\ (EntryLive(e.remote_id) /\ e.button_id = watchers[i].button_id) =>
                     watchers'[i].h.button_state = IngestTable(watchers[i].h.button_state, e.button_action)
               /\ Len(watchers') > Len(watchers) =>
                     LET n == watchers'[Len(watchers')] IN
                     /\ n.button_id = e.button_id
                     /\ n.h.button_state = IngestTable(None, e.button_action)
       /\ \A i \in Watchers :
            /\ watchers[i].h.button_state = "SecondPressAndSecondRelease" =>
                  watchers'[i].h.button_state = "SecondPressAndSecondRelease"
            /\ ~RouterStep => watchers'[i].h.button_state = watchers[i].h.button_state]_vars

(* A live entry has walked the whole table inside the double click window *)
C4_Witness ==
    /\ last_event.button_action = "Release"
    /\ \E i \in Watchers :
          /\ remote_watchers[last_event.remote_id] = i
          /\ watchers[i].button_id = last_event.button_id
          /\ watchers[i].h.button_state = "SecondPressAndSecondRelease"
          /\ watchers[i].pc = "first_sleep"

(* C5: a Release for a remote whose entry is missing or finished is        *)
(* dropped (no entry created or replaced, no task spawned); a Press        *)
(* creates one fresh entry in FirstPressAwaitingRelease with one task.     *)
C5_ReleaseDropped ==
    [][RouterStep =>
          LET e == last_event' IN
          EntryMissingOrFinished(e.remote_id) =>
             IF e.button_action = "Release"
             THEN UNCHANGED <<watchers, remote_watchers>>
             ELSE /\ Len(watchers') = Len(watchers) + 1
                  /\ remote_watchers'[e.remote_id] = Len(watchers')
                  /\ watchers'[Len(watchers')].button_id = e.button_id
                  /\ watchers'[Len(watchers')].h.button_state = "FirstPressAwaitingRelease"
                  /\ watchers'[Len(watchers')].pc = "first_sleep"]_vars

(* C40: a task that wakes in its loop finds the button state set, so its  *)
(* expect never fails; a task is spawned only for an entry whose creating  *)
(* event was a Press on the watched button.                                *)
C40_ButtonStateSet ==
    /\ [](\A i \in Watchers :
            /\ watchers[i].pc = "loop_sleep" => watchers[i].h.button_state # None
            /\ watchers[i].pc # "panicked")
    /\ [][Len(watchers') > Len(watchers) =>
            /\ last_event'.button_action = "Press"
            /\ watchers'[Len(watchers')].button_id = last_event'.button_id]_vars

(* a task spawned for a Release on a finished entry has slept through its  *)
(* first pass with no button state, and its expect has failed              *)
ExpectFailed ==
    \E i \in Watchers :
        /\ watchers[i].pc = "panicked"
        /\ watchers[i].h.button_state = None

(* the expect fails only in a task whose entry was created by a Release:   *)
(* an entry created by a Press has its state set from the start.           *)
PressEntryHasState ==
    [][Len(watchers') > Len(watchers) /\ last_event'.button_action = "Press"
          => watchers'[Len(watchers')].h.button_state = "FirstPressAwaitingRelease"]_vars

C7_ReplacedTaskSilent ==
    [][channel' # channel =>
          LET m == channel'[Len(channel')] IN remote_watchers[m.remote_id] = m.from]_vars

----------------------------------------------------------------------------
(* Properties of a press and hold, checked under SpecS2 *)

(* The run is over: both events taken, the task returned, every message    *)
(* served and no request failed.                                            *)
S2Finished ==
    /\ nevents = 2
    /\ \A i \in Watchers : watchers[i].pc = "done"
    /\ received = Len(channel)
    /\ dispatcher_alive

DeviceActionsSent == [k \in 1..Len(channel) |-> channel[k].device_action]

BrightnessUpdates ==
    LET updates == SelectSeq(calls, LAMBDA c : c.request = "update_brightness")
    IN [k \in 1..Len(updates) |-> unwrap(updates[k].brightness)]

(* C8: Down on a room that is on at brightness 50, Press at 0 and Release  *)
(* at 2000 ms: the watcher sends LongPressOngoing twice and then           *)
(* LongPressComplete, update_brightness is called with 45 and then 40, and *)
(* the cached brightness ends at 40, in whichever order the Release and    *)
(* the tick due at 2000 ms are taken.                                       *)
C8_ScenarioS2 ==
    (/\ scenario = [button_id |-> "Down", release_at |-> 2000,
                    light |-> [on |-> TRUE, brightness |-> Percent(50)]]
     /\ S2Finished)
    => /\ DeviceActionsSent = <<"LongPressOngoing", "LongPressOngoing", "LongPressComplete">>
       /\ BrightnessUpdates = <<Percent(45), Percent(40)>>
       /\ cache # Nothing
       /\ unwrap(cache).brightness = Some(Percent(40))

----------------------------------------------------------------------------
(* caseta/message.rs: the line codec.  A line is a sequence of one         *)
(* character strings.                                                       *)

Whitespace == {" ", "\t", "\r", "\n"}
Digits == <<"0", "1", "2", "3", "4", "5", "6", "7", "8", "9">>
IsDigit(c) == \E d \in 1..10 : Digits[d] = c
DigitValue(c) == (CHOOSE d \in 1..10 : Digits[d] = c) - 1

(* str::starts_with *)
starts_with(s, prefix) ==
    /\ Len(s) >= Len(prefix)
    /\ SubSeq(s, 1, Len(prefix)) = prefix

(* str::trim: strips the white space at both ends *)
RECURSIVE trim_start(_)
trim_start(s) ==
    IF s # <<>> /\ Head(s) \in Whitespace THEN trim_start(Tail(s)) ELSE s

RECURSIVE trim_end(_)
trim_end(s) ==
    IF s # <<>> /\ s[Len(s)] \in Whitespace THEN trim_end(SubSeq(s, 1, Len(s) - 1)) ELSE s

trim(s) == trim_end(trim_start(s))

(* str::split(","): the pieces between the commas, at least one *)
RECURSIVE split(_)
split(s) ==
    IF \E k \in 1..Len(s) : s[k] = ","
    THEN LET k == Min({j \in 1..Len(s) : s[j] = ","})
         IN <<SubSeq(s, 1, k - 1)>> \o split(SubSeq(s, k + 1, Len(s)))
    ELSE <<s>>

(* str::parse::<u8>: an optional "+", then one or more decimal digits, the *)
(* value at most 255; -1 stands for Err.                                    *)
RECURSIVE digits_value(_, _)
digits_value(s, acc) ==
    IF s = <<>> THEN acc
    ELSE IF ~IsDigit(Head(s)) THEN -1
    ELSE LET v == acc * 10 + DigitValue(Head(s))
         IN IF v > 255 THEN -1 ELSE digits_value(Tail(s), v)

parse_u8(s) ==
    LET digits == IF s # <<>> /\ Head(s) = "+" THEN Tail(s) ELSE s
    IN IF digits = <<>> THEN -1 ELSE digits_value(digits, 0)

(* TryFrom<u8> for ButtonId and for ButtonAction; "Err" for the error *)
ButtonIdTryFromDraft(id) ==
    CASE id = 2 -> "PowerOn"
      [] id = 5 -> "Up"
      [] id = 3 -> "Favorite"
      [] id = 6 -> "Down"
      [] id = 4 -> "PowerOn"
      [] OTHER -> "Err"

ButtonIdTryFrom(id) ==
    CASE id = 2 -> "PowerOn"
      [] id = 5 -> "Up"
      [] id = 3 -> "Favorite"
      [] id = 6 -> "Down"
      [] id = 4 -> "PowerOff"
      [] OTHER -> "Err"

ButtonActionTryFrom(id) ==
    CASE id = 3 -> "Press"
      [] id = 4 -> "Release"
      [] OTHER -> "Err"

LoginPrefix == <<"l", "o", "g", "i", "n", ":", " ">>
PasswordPrefix == <<"p", "a", "s", "s", "w", "o", "r", "d", ":", " ">>
GnetPrefix == <<"G", "N", "E", "T", ">">>
DevicePrefix == <<"~", "D", "E", "V", "I", "C", "E">>

Frame(type) == [kind |-> "Ok", type |-> type]
Panic == [kind |-> "Panic"]
ParseErr == [kind |-> "Err"]

(* Message::from_str.  Indexing parts past its end, a failed parse and a   *)
(* failed try_into all panic (index out of bounds, expect).                 *)
from_str(s) ==
    IF starts_with(s, LoginPrefix) THEN Frame("LoginPrompt")
    ELSE IF starts_with(s, PasswordPrefix) THEN Frame("PasswordPrompt")
    ELSE IF starts_with(s, GnetPrefix) THEN Frame("LoggedIn")
    ELSE IF starts_with(s, DevicePrefix)
    THEN LET parts == split(trim(s)) IN
         IF Len(parts) < 2 \/ parse_u8(parts[2]) = -1 THEN Panic
         ELSE IF Len(parts) < 3 \/ parse_u8(parts[3]) = -1 THEN Panic
         ELSE IF Len(parts) < 4 \/ parse_u8(parts[4]) = -1 THEN Panic
         ELSE IF ButtonIdTryFrom(parse_u8(parts[3])) = "Err" THEN Panic
         ELSE IF ButtonActionTryFrom(parse_u8(parts[4])) = "Err" THEN Panic
         ELSE [kind |-> "Ok", type |-> "ButtonEvent",
               remote_id |-> parse_u8(parts[2]),
               button_id |-> ButtonIdTryFrom(parse_u8(parts[3])),
               button_action |-> ButtonActionTryFrom(parse_u8(parts[4]))]
    ELSE ParseErr

----------------------------------------------------------------------------
(* The lines the codec is given: the lines a hub writes for a button       *)
(* event, and samples of everything else.                                   *)

CRLF == <<"\r", "\n">>

RECURSIVE Decimal(_)
Decimal(n) == IF n < 10 THEN <<Digits[n + 1]>> ELSE Decimal(n \div 10) \o <<Digits[(n % 10) + 1]>>

RECURSIVE JoinFields(_)
JoinFields(fs) == IF fs = <<>> THEN <<>> ELSE <<",">> \o Head(fs) \o JoinFields(Tail(fs))

DeviceLine(fs) == DevicePrefix \o JoinFields(fs) \o CRLF

WireLine(r, b, a) == DeviceLine(<<Decimal(r), Decimal(b), Decimal(a)>>)

WireRemoteIds == 0..255
WireButtonIds == 2..6
WireActionIds == 3..4

FieldSamples ==
    {<<"7">>, <<"2">>, <<"3">>, <<"4">>, <<"9", "9">>, <<"2", "5", "6">>, <<"x">>, <<>>,
     <<"+", "5">>, <<"0", "0", "6">>, <<"-", "1">>}

SampleLines ==
    {DeviceLine(fs) : fs \in UNION {[1..n -> FieldSamples] : n \in 0..3}}
    \cup {DeviceLine(<<<<"7">>, <<"2">>, <<"3">>, f>>) : f \in FieldSamples}
    \cup {LoginPrefix, PasswordPrefix, GnetPrefix, GnetPrefix \o <<" ">>, <<>>, CRLF,
          <<" ">> \o LoginPrefix, <<"h", "e", "l", "l", "o">> \o CRLF,
          <<"~", "O", "U", "T", "P", "U", "T", ",", "2", ",", "1">> \o CRLF,
          DevicePrefix \o <<"7", ",", "2", ",", "3">> \o CRLF}

CodecReadWire(r, b, a) ==
    /\ codec_pc = "idle"
    /\ codec_pc' = "read"
    /\ codec_line' = WireLine(r, b, a)
    /\ codec_wire' = [remote_id |-> r, button_id |-> b, action_id |-> a]
    /\ UNCHANGED <<codec_result, notCodec>>

CodecReadSample(line) ==
    /\ codec_pc = "idle"
    /\ codec_pc' = "read"
    /\ codec_line' = line
    /\ UNCHANGED <<codec_wire, codec_result, notCodec>>

CodecParse ==
    /\ codec_pc = "read"
    /\ codec_pc' = "parsed"
    /\ codec_result' = from_str(codec_line)
    /\ UNCHANGED <<codec_line, codec_wire, notCodec>>

NextCodec ==
    \/ \E r \in WireRemoteIds, b \in WireButtonIds, a \in WireActionIds : CodecReadWire(r, b, a)
    \/ \E line \in SampleLines : CodecReadSample(line)
    \/ CodecParse

SpecCodec == Init /\ [][NextCodec]_vars

----------------------------------------------------------------------------
(* Properties of the codec, checked under SpecCodec *)

(* A "~DEVICE" line the claim calls malformed: fewer than four fields, a   *)
(* field that is no unsigned integer up to 255, an unknown button or action *)
MalformedDeviceLine(s) ==
    LET parts == split(trim(s)) IN
    \/ Len(parts) < 4
    \/ \E k \in 2..4 : parse_u8(parts[k]) = -1
    \/ parse_u8(parts[3]) \notin WireButtonIds
    \/ parse_u8(parts[4]) \notin WireActionIds

RecognizedPrefix(s) ==
    \/ starts_with(s, LoginPrefix)
    \/ starts_with(s, PasswordPrefix)
    \/ starts_with(s, GnetPrefix)
    \/ starts_with(s, DevicePrefix)

(* C9: the codec never panics: a malformed "~DEVICE" line and a line with  *)
(* no recognized prefix yield a ParseError value, every other line a Frame *)
C9_CodecTotal ==
    codec_pc = "parsed" =>
        /\ codec_result.kind # "Panic"
        /\ codec_result.kind = "Err" <=>
              \/ ~RecognizedPrefix(codec_line)
              \/ starts_with(codec_line, DevicePrefix) /\ MalformedDeviceLine(codec_line)

CanonicalButton(b) ==
    CASE b = 2 -> "PowerOn" [] b = 3 -> "Favorite" [] b = 4 -> "PowerOff"
      [] b = 5 -> "Up" [] b = 6 -> "Down"

CanonicalAction(a) == CASE a = 3 -> "Press" [] a = 4 -> "Release"

(* C10: the line the hub writes for (r, b, a) parses to the ButtonEvent of *)
(* remote r with the button and action of the canonical mapping, and the   *)
(* ids are recovered from the event: distinct ids give distinct events.    *)
C10_WireRoundTrip ==
    (codec_pc = "parsed" /\ codec_wire # NoWire) =>
        /\ codec_result = [kind |-> "Ok", type |-> "ButtonEvent",
                           remote_id |-> codec_wire.remote_id,
                           button_id |-> CanonicalButton(codec_wire.button_id),
                           button_action |-> CanonicalAction(codec_wire.action_id)]
        /\ \A b \in WireButtonIds :
              CanonicalButton(b) = codec_result.button_id => b = codec_wire.button_id
        /\ \A a \in WireActionIds :
              CanonicalAction(a) = codec_result.button_action => a = codec_wire.action_id

C10_Witness ==
    /\ codec_pc = "parsed"
    /\ codec_wire = [remote_id |-> 255, button_id |-> 4, action_id |-> 4]
    /\ codec_result.kind = "Ok"
    /\ codec_result.button_id = "PowerOff"

----------------------------------------------------------------------------
(* caseta/connection.rs: the connection to the hub.  The main task calls   *)
(* await_message of the DelegatingCasetaConnectionManager from the router  *)
(* loop; every socket that logged in has a keep-alive task of its own.     *)

MaxConnections == 2
MaxKeepAlives == 2
MaxResults == 2

(* what one read of the socket brings: bytes, end of stream, bytes that    *)
(* are no UTF-8, an io error, or the disconnect signal winning the select  *)
Bytes(line) == [kind |-> "Bytes", line |-> line]
Eof == [kind |-> "Eof"]
NotUtf8 == [kind |-> "NotUtf8"]
IoError == [kind |-> "IoError"]
Disconnect == [kind |-> "Disconnect"]

HubLines ==
    {LoginPrefix, PasswordPrefix, GnetPrefix \o <<" ">>,
     WireLine(7, 5, 3), WireLine(7, 5, 4),
     DeviceLine(<<<<"7">>, <<"9", "9">>, <<"3">>>>),
     <<"h", "e", "l", "l", "o">> \o CRLF}

SocketReads == {Bytes(line) : line \in HubLines} \cup {Eof, NotUtf8, IoError}

OkSome(message) == [kind |-> "Ok", message |-> Some(message)]
OkNone == [kind |-> "Ok", message |-> Nothing]
Err(error) == [kind |-> "Err", error |-> error]

(* CasetaReadConnectionManager::read_frame, given what the select brings *)
read_frame(outcome) ==
    CASE outcome.kind = "Disconnect" -> Err("LivenessError")
      [] outcome.kind = "IoError" -> Panic
      [] outcome.kind = "Eof" -> OkNone
      [] outcome.kind = "NotUtf8" -> Err("UnrecoverableError")
      [] outcome.kind = "Bytes" ->
            LET parsed == from_str(outcome.line) IN
            CASE parsed.kind = "Ok" -> OkSome(parsed)
              [] parsed.kind = "Err" -> Err("UnrecoverableError")
              [] parsed.kind = "Panic" -> Panic

ensure_expected_messageAnyFrame(expected_message, actual_message) ==
    actual_message.kind = "Ok" /\ actual_message.message # Nothing

ensure_expected_message(expected_message, actual_message) ==
    /\ actual_message.kind = "Ok"
    /\ actual_message.message # Nothing
    /\ unwrap(actual_message.message) = expected_message

(* a socket: how its login went, the reads and writes of its handshake,   *)
(* the disconnect channel (signals queued, receiver alive) and the         *)
(* keep-alive task of its write half                                       *)
SocketNew ==
    [login |-> "pending", trace |-> <<>>, disconnect |-> 0, receiver |-> TRUE,
     keep_alive |-> "none", keep_alive_writes |-> 0]

(* the router is at the head of its loop and calls await_message *)
AwaitMessageCalled ==
    /\ conn_pc = "idle"
    /\ router_alive
    /\ conn_returned = nevents + conn_skipped
    /\ conn_returned < MaxResults

Return(result, socket) ==
    /\ returned' = [result |-> result, socket |-> socket]
    /\ conn_returned' = conn_returned + 1
    /\ conn_pc' = "idle"

(* await_message without a read_connection_manager: new_connection opens  *)
(* a socket, or fails to within the 10 s timeout.                          *)
Connect(ok) ==
    /\ AwaitMessageCalled
    /\ read_connection_manager = 0
    /\ Len(sockets) < MaxConnections
    /\ IF ok
       THEN /\ sockets' = Append(sockets, SocketNew)
            /\ conn_pc' = "login_prompt"
            /\ UNCHANGED <<returned, conn_returned>>
       ELSE /\ Return(Err("UnrecoverableError"), 0)
            /\ UNCHANGED sockets
    /\ UNCHANGED <<read_connection_manager, conn_skipped, notConn>>

LoginReads ==
    [login_prompt |-> [expected |-> Frame("LoginPrompt"), then |-> "write_username"],
     password_prompt |-> [expected |-> Frame("PasswordPrompt"), then |-> "write_password"],
     logged_in |-> [expected |-> Frame("LoggedIn"), then |-> "reading"]]

LoginWrites ==
    [write_username |-> [message |-> "username", then |-> "password_prompt"],
     write_password |-> [message |-> "password", then |-> "logged_in"]]

(* log_in fails: initialize and new_connection hand the error on, nothing *)
(* is installed and the socket is dropped.                                 *)
LoginFails ==
    /\ sockets' = [sockets EXCEPT ![Len(sockets)].login = "failed",
                                  ![Len(sockets)].receiver = FALSE]
    /\ Return(Err("UnrecoverableError"), Len(sockets))
    /\ UNCHANGED read_connection_manager

(* one read of log_in and its ensure_expected_message; the last one ends  *)
(* the handshake: the read half is installed and the keep-alive task of   *)
(* the write half is spawned.                                              *)
LoginRead(outcome) ==
    /\ conn_pc \in DOMAIN LoginReads
    /\ LET step == LoginReads[conn_pc]
           actual_message == read_frame(outcome)
           s == Len(sockets)
       IN IF actual_message = Panic
          THEN /\ conn_pc' = "panicked"
               /\ UNCHANGED <<read_connection_manager, sockets, returned, conn_returned>>
          ELSE IF ensure_expected_message(step.expected, actual_message)
          THEN /\ conn_pc' = step.then
               /\ IF step.then = "reading"
                  THEN /\ sockets' = [sockets EXCEPT ![s].login = "done",
                                                     ![s].trace = Append(@, unwrap(actual_message.message).type),
                                                     ![s].keep_alive = "running"]
                       /\ read_connection_manager' = s
                  ELSE /\ sockets' = [sockets EXCEPT ![s].trace = Append(@, unwrap(actual_message.message).type)]
                       /\ UNCHANGED read_connection_manager
               /\ UNCHANGED <<returned, conn_returned>>
          ELSE LoginFails
    /\ UNCHANGED <<conn_skipped, notConn>>

(* one write_message of log_in *)
LoginWrite(ok) ==
    /\ conn_pc \in DOMAIN LoginWrites
    /\ LET step == LoginWrites[conn_pc]
           s == Len(sockets)
       IN IF ok
          THEN /\ sockets' = [sockets EXCEPT ![s].trace = Append(@, step.message)]
               /\ conn_pc' = step.then
               /\ UNCHANGED <<read_connection_manager, returned, conn_returned>>
          ELSE LoginFails
    /\ UNCHANGED <<conn_skipped, notConn>>

(* await_message on the installed read half: the match on next_message *)
await_messageKeepsConnection(next_message) ==
    CASE next_message.kind = "Ok" /\ next_message.message # Nothing ->
            [result |-> next_message, discard |-> FALSE]
      [] next_message.kind = "Ok" ->
            [result |-> Err("LivenessError"), discard |-> FALSE]
      [] next_message = Err("LivenessError") ->
            [result |-> Err("LivenessError"), discard |-> FALSE]
      [] OTHER -> [result |-> Err("UnrecoverableError"), discard |-> FALSE]

await_message(next_message) ==
    CASE next_message.kind = "Ok" /\ next_message.message # Nothing ->
            [result |-> next_message, discard |-> FALSE]
      [] next_message.kind = "Ok" ->
            [result |-> Err("LivenessError"), discard |-> TRUE]
      [] next_message = Err("LivenessError") ->
            [result |-> Err("LivenessError"), discard |-> TRUE]
      [] OTHER -> [result |-> Err("UnrecoverableError"), discard |-> FALSE]

(* the read of await_message on a connection that logged in, either in    *)
(* the call that made the connection or in a later call                    *)
ReadLive(outcome) ==
    /\ \/ conn_pc = "reading"
       \/ AwaitMessageCalled /\ read_connection_manager # 0
    /\ LET s == read_connection_manager
           next_message == read_frame(outcome)
       IN /\ outcome.kind = "Disconnect" => sockets[s].disconnect > 0
          /\ IF next_message = Panic
             THEN /\ conn_pc' = "panicked"
                  /\ UNCHANGED <<read_connection_manager, sockets, returned, conn_returned>>
             ELSE LET r == await_message(next_message) IN
                  /\ Return(r.result, s)
                  /\ read_connection_manager' = IF r.discard THEN 0 ELSE s
                  /\ sockets' = [sockets EXCEPT
                        ![s].disconnect = IF outcome.kind = "Disconnect" THEN @ - 1 ELSE @,
                        ![s].receiver = ~r.discard]
    /\ UNCHANGED <<conn_skipped, notConn>>

(* main awaits watch_caseta_events: when it returns or panics the runtime  *)
(* is shut down and every spawned task ends with it.                       *)
MainRunning == conn_pc \notin {"exited", "panicked"} /\ router_alive

(* socket_liveness_checker_loop makes a new time::interval in every pass  *)
(* of its loop and awaits its first tick; the first tick of a tokio        *)
(* interval completes at once.                                             *)
KEEP_ALIVE_INTERVAL == 60000

interval_first_tick(created_at) == created_at

(* the keep-alive writes on the first n sockets *)
RECURSIVE KeepAliveWrites(_)
KeepAliveWrites(n) == IF n = 0 THEN 0 ELSE sockets[n].keep_alive_writes + KeepAliveWrites(n - 1)

(* one pass of the loop of the keep-alive task of socket s, begun now: the *)
(* write of "\r\n" succeeds, or fails and write_keep_alive_message sends   *)
(* the disconnect signal on the channel of capacity 1.  The send waits     *)
(* while the channel is full, and fails when the receiver is dropped: the  *)
(* task panics.                                                            *)
KeepAliveWrite(s, ok) ==
    /\ MainRunning
    /\ sockets[s].keep_alive = "running"
    /\ interval_first_tick(now) <= now
    /\ IF ok
       THEN /\ KeepAliveWrites(Len(sockets)) < MaxKeepAlives
            /\ sockets' = [sockets EXCEPT ![s].keep_alive_writes = @ + 1]
       ELSE /\ sockets' = [sockets EXCEPT
                  ![s].keep_alive = IF ~sockets[s].receiver THEN "panicked"
                                    ELSE IF sockets[s].disconnect = 0 THEN "running"
                                    ELSE "sending",
                  ![s].disconnect = IF sockets[s].receiver THEN 1 ELSE @]
    /\ UNCHANGED <<conn_pc, read_connection_manager, returned, conn_returned, conn_skipped, notConn>>

(* the waiting send of the disconnect signal ends *)
KeepAliveSent(s) ==
    /\ MainRunning
    /\ sockets[s].keep_alive = "sending"
    /\ ~sockets[s].receiver \/ sockets[s].disconnect = 0
    /\ sockets' = [sockets EXCEPT
          ![s].keep_alive = IF sockets[s].receiver THEN "running" ELSE "panicked",
          ![s].disconnect = IF sockets[s].receiver THEN 1 ELSE @]
    /\ UNCHANGED <<conn_pc, read_connection_manager, returned, conn_returned, conn_skipped, notConn>>

----------------------------------------------------------------------------
(* main.rs, watch_caseta_events: the match on the result of await_message. *)
(* main.rs is written against the older connection type; its arm for a     *)
(* disconnect is taken for LivenessError and its last arm for every other  *)
(* error.                                                                  *)

HasPending == conn_pc = "idle" /\ router_alive /\ nevents + conn_skipped < conn_returned

PendingButtonEvent(r, b, a) ==
    /\ HasPending
    /\ returned.result = OkSome([kind |-> "Ok", type |-> "ButtonEvent",
                                 remote_id |-> r, button_id |-> b, button_action |-> a])

RouterSkip ==
    /\ conn_skipped' = conn_skipped + 1
    /\ returned' = NoReturn
    /\ UNCHANGED <<read_connection_manager, sockets, conn_returned, notConn>>

(* Ok(unexpected_contents): a warning *)
RouterUnexpectedContents ==
    /\ HasPending
    /\ returned.result.kind = "Ok"
    /\ unwrap(returned.result.message).type # "ButtonEvent"
    /\ RouterSkip
    /\ UNCHANGED conn_pc

(* the disconnect arm: the loop goes on and the connection is made anew *)
RouterDisconnectedResetsTable ==
    /\ HasPending
    /\ returned.result = Err("LivenessError")
    /\ conn_skipped' = conn_skipped + 1
    /\ returned' = NoReturn
    /\ remote_watchers' = [r \in RemoteIds |-> 0]
    /\ UNCHANGED <<read_connection_manager, sockets, conn_returned, conn_pc>>
    /\ UNCHANGED <<now, watchers, channel, router_alive, nevents, last_event>>
    /\ UNCHANGED <<codecVars, dispVars, scenario, configVars, senderVars, kindVars>>

RouterDisconnected ==
    /\ HasPending
    /\ returned.result = Err("LivenessError")
    /\ RouterSkip
    /\ UNCHANGED conn_pc

(* Err(other): break Err, watch_caseta_events returns and main exits *)
RouterBreak ==
    /\ HasPending
    /\ returned.result = Err("UnrecoverableError")
    /\ RouterSkip
    /\ conn_pc' = "exited"

(* One step of the program with its connection.  With MaxResults results  *)
(* the router meets no poisoned lock: that takes three button events.      *)
NextConn ==
    \/ \E ok \in BOOLEAN : Connect(ok)
    \/ \E outcome \in SocketReads : LoginRead(outcome)
    \/ \E ok \in BOOLEAN : LoginWrite(ok)
    \/ \E outcome \in SocketReads \cup {Disconnect} : ReadLive(outcome)
    \/ \E s \in 1..Len(sockets), ok \in BOOLEAN : KeepAliveWrite(s, ok)
    \/ \E s \in 1..Len(sockets) : KeepAliveSent(s)
    \/ \E r \in RemoteIds, b \in ButtonIds :
          PendingButtonEvent(r, b, "Release") /\ RouterVacantRelease(r, b)
    \/ \E r \in RemoteIds, b \in ButtonIds :
          PendingButtonEvent(r, b, "Press") /\ RouterVacantPress(r, b)
    \/ \E r \in RemoteIds, b \in ButtonIds, a \in ButtonActions :
          PendingButtonEvent(r, b, a) /\ RouterOccupiedFinished(r, b, a)
    \/ \E r \in RemoteIds, b \in ButtonIds, a \in ButtonActions :
          PendingButtonEvent(r, b, a) /\ RouterOccupiedUnfinished(r, b, a)
    \/ RouterUnexpectedContents
    \/ RouterDisconnected
    \/ RouterBreak
    \/ MainRunning /\ \E i \in 1..Len(watchers) : FirstCheck(i)
    \/ MainRunning /\ \E i \in 1..Len(watchers) : LoopCheck(i)
    \/ MainRunning /\ \E i \in 1..Len(watchers) : LoopPanic(i)
    \/ MainRunning /\ \E i \in 1..Len(watchers) : Send(i)
    \/ MainRunning /\ Advance

SpecConn == Init /\ [][NextConn]_vars

----------------------------------------------------------------------------
(* Properties of the connection, checked under SpecConn *)

(* a step of the main task inside await_message *)
LiveReadStep(outcome) == ReadLive(outcome)
LoginReadStep(outcome) == LoginRead(outcome)

LiveLines == {Bytes(line) : line \in HubLines}

(* a line that does not parse to a Frame *)
MalformedLine(line) ==
    \/ ~RecognizedPrefix(line)
    \/ starts_with(line, DevicePrefix) /\ MalformedDeviceLine(line)

(* C11: a line read on a live connection that does not parse to a Frame is *)
(* skipped: await_message returns nothing for it, the connection stays     *)
(* installed and the main task goes on reading.                            *)
C11_MalformedLineSkipped ==
    [][\A outcome \in LiveLines :
          LiveReadStep(outcome) /\ MalformedLine(outcome.line)
          => /\ conn_returned' = conn_returned
             /\ read_connection_manager' = read_connection_manager
             /\ conn_pc' \notin {"panicked", "exited"}]_vars

(* the handshake in its order: what is read and what is written *)
StrictOrder == <<"LoginPrompt", "username", "PasswordPrompt", "password", "LoggedIn">>

IsPrefix(t, u) == Len(t) <= Len(u) /\ t = SubSeq(u, 1, Len(t))

Installed(s) == read_connection_manager = s \/ sockets[s].keep_alive # "none"

HandshakeInOrder ==
    \A s \in 1..Len(sockets) :
        /\ IsPrefix(sockets[s].trace, StrictOrder)
        /\ sockets[s].login = "done" => sockets[s].trace = StrictOrder
        /\ Installed(s) => sockets[s].login = "done"

(* a read of the handshake that brings anything but the expected frame:    *)
(* another frame, the end of the stream or an error                         *)
Deviates(outcome) ==
    /\ read_frame(outcome) # Panic
    /\ read_frame(outcome) # OkSome(LoginReads[conn_pc].expected)

C13_LoggedInNotReturned == returned.result # OkSome(Frame("LoggedIn"))

(* a socket that was installed and then given up by await_message *)
Discarded(s) == sockets[s].login = "done" /\ ~sockets[s].receiver

FramesFromLiveSocket ==
    /\ read_connection_manager # 0 =>
          /\ read_connection_manager = Len(sockets)
          /\ sockets[read_connection_manager].trace = StrictOrder
          /\ ~Discarded(read_connection_manager)
    /\ returned.result.kind = "Ok" =>
          /\ returned.socket = read_connection_manager
          /\ returned.socket # 0

(* C14: when the read on the installed connection brings zero bytes or the *)
(* disconnect signal, await_message returns LivenessError and gives the    *)
(* connection up; a connection is installed only as a new socket whose     *)
(* whole handshake is done, and every frame returned was read from the     *)
(* connection installed at that moment, never from one given up.           *)
C14_DeadConnectionReplaced ==
    /\ []FramesFromLiveSocket
    /\ [][/\ \A outcome \in {Eof, Disconnect} :
                LiveReadStep(outcome)
                => /\ returned'.result = Err("LivenessError")
                   /\ conn_returned' = conn_returned + 1
                   /\ read_connection_manager' = 0
                   /\ ~sockets'[read_connection_manager].receiver
          /\ read_connection_manager' # read_connection_manager /\ read_connection_manager' # 0
                => /\ read_connection_manager' = Len(sockets)
                   /\ sockets[Len(sockets)].login = "pending"
                   /\ sockets'[Len(sockets)].trace = StrictOrder]_vars

(* the first connection was given up, and a frame has been returned from   *)
(* the second                                                              *)
C14_Witness ==
    /\ Len(sockets) = 2
    /\ Discarded(1)
    /\ returned.socket = 2
    /\ returned.result.kind = "Ok"

ConnectStep(ok) == Connect(ok)

(* C15: a failure to connect is not returned by await_message as an error *)
C15_ConnectFailureNotReturned ==
    [][ConnectStep(FALSE) => conn_returned' = conn_returned /\ returned'.result.kind # "Err"]_vars

(* C16: the keep-alive writes of one connection are 60 s apart, so that    *)
(* by any instant a connection has seen at most one write more than the    *)
(* number of whole intervals that have passed.                             *)
C16_KeepAliveEveryInterval ==
    \A s \in 1..Len(sockets) :
        sockets[s].keep_alive_writes <= 1 + now \div KEEP_ALIVE_INTERVAL

KeepAliveRunning(s) == sockets[s].keep_alive \in {"running", "sending"}

(* socket s was given up and a later socket has been opened *)
Replaced(s) == Discarded(s) /\ s < Len(sockets)

KeepAliveStep(s, ok) == KeepAliveWrite(s, ok)

(* C39: at most one keep-alive task is running; once a connection has     *)
(* been given up and a new one opened, the keep-alive task of the old one  *)
(* has stopped without a panic and writes nothing more.                    *)
C39_OneKeepAliveTask ==
    /\ [](/\ Cardinality({s \in 1..Len(sockets) : KeepAliveRunning(s)}) <= 1
          /\ \A s \in 1..Len(sockets) :
                Replaced(s) => ~KeepAliveRunning(s) /\ sockets[s].keep_alive # "panicked")
    /\ [][\A s \in 1..Len(sockets), ok \in BOOLEAN : ~(Replaced(s) /\ KeepAliveStep(s, ok))]_vars

(* the task of a connection that was given up is not stopped: it goes on   *)
(* writing for as long as its writes succeed, and it panics at the first   *)
(* write that fails, the receiver of its disconnect signal being dropped.  *)
DiscardedTaskLivesOrPanics ==
    \A s \in 1..Len(sockets) :
        Discarded(s) => sockets[s].keep_alive \in {"running", "sending", "panicked"}

(* two keep-alive tasks at once, the older one having written after its    *)
(* connection was replaced                                                 *)
TwoKeepAliveTasks ==
    /\ Len(sockets) = 2
    /\ Discarded(1)
    /\ KeepAliveRunning(1)
    /\ KeepAliveRunning(2)

----------------------------------------------------------------------------
(* The dispatcher on its own: a remote of either kind, a room that is on   *)
(* or off, a cache that is empty or holds an entry, and messages sent on   *)
(* the channel by the watcher tasks.                                       *)

MaxMessages == 2

RemoteKinds == {"TwoButtonPico", "FiveButtonPico"}
DispButtons == {"PowerOn", "Up", "PowerOff"}
DispLights == {[on |-> o, brightness |-> Percent(50)] : o \in BOOLEAN}
DispScenes == {Nothing, Some(SceneOf(1))}
DispCaches == {Nothing} \cup {Some(build_cache_entry(sc, l)) : sc \in DispScenes, l \in DispLights}

InitDisp ==
    /\ CodecIdle
    /\ RouterIdle
    /\ DispatcherIdle
    /\ ConnectionIdle
    /\ scenario = NoScenario
    /\ topology \in RemoteKinds
    /\ room = RoomOf(1)
    /\ overflow_checks = TRUE
    /\ light \in DispLights
    /\ cache \in DispCaches

(* a watcher task sends a message *)
GestureSent(r, b, a) ==
    /\ Len(channel) < MaxMessages
    /\ channel' = Append(channel, [device_action |-> a, remote_id |-> r, button_id |-> b, from |-> 0])
    /\ UNCHANGED <<now, watchers, remote_watchers, router_alive, nevents, last_event, notRec>>

NextDisp ==
    \/ \E r \in RemoteIds, b \in DispButtons, a \in DeviceActions : GestureSent(r, b, a)
    \/ Recv
    \/ \E get_ok, put_ok, tail_ok \in BOOLEAN : Dispatch(get_ok, put_ok, tail_ok)

SpecDisp == InitDisp /\ [][NextDisp]_vars

----------------------------------------------------------------------------
(* Properties of the dispatcher, checked under SpecDisp *)

(* the message a step of the dispatcher handles, the state of the room as  *)
(* the handler finds it, and the requests the step makes                   *)
DispatchedMessage == channel[received + 1]
RoomStateFound == IF cache # Nothing THEN unwrap(cache) ELSE build_cache_entry(Nothing, light)
NewCalls == SubSeq(calls', Len(calls) + 1, Len(calls'))
Mutations == SelectSeq(NewCalls, LAMBDA c : c.request # "get_grouped_light")

(* a step of the dispatcher in which every request succeeds *)
SucceedingDispatch == Dispatch(TRUE, TRUE, TRUE)

NoEffect == Mutations = <<>> /\ cache' = cache

CompletedPress == {"SinglePressComplete", "DoublePressComplete", "LongPressComplete"}

(* C18: a PowerOn SinglePressComplete on a room that is off calls turn_on  *)
(* and caches on = true, the brightness the API returns and the scene the  *)
(* room had; every other PowerOn message makes no lighting mutation and    *)
(* no cache write.                                                         *)
C18_PowerOnRule ==
    [][SucceedingDispatch /\ DispatchedMessage.button_id = "PowerOn"
       => IF DispatchedMessage.device_action = "SinglePressComplete" /\ ~RoomStateFound.on
          THEN /\ Mutations = <<TurnOn>>
               /\ cache' = Some([scene |-> RoomStateFound.scene,
                                  brightness |-> Some(light'.brightness),
                                  on |-> TRUE])
          ELSE NoEffect]_vars

(* The rule of C18 for a five-button remote: it holds.  For a two-button  *)
(* remote the handler returns an error before it looks at the room.        *)
PowerOnRuleFiveButton ==
    [][SucceedingDispatch /\ DispatchedMessage.button_id = "PowerOn"
                          /\ topology = "FiveButtonPico"
       => IF DispatchedMessage.device_action = "SinglePressComplete" /\ ~RoomStateFound.on
          THEN /\ Mutations = <<TurnOn>>
               /\ cache' = Some([scene |-> RoomStateFound.scene,
                                  brightness |-> Some(light'.brightness),
                                  on |-> TRUE])
          ELSE NoEffect]_vars

(* C19: a PowerOff SinglePressComplete, DoublePressComplete or             *)
(* LongPressComplete calls turn_off and leaves the cache entry with        *)
(* on = false, no brightness and the scene the room had; LongPressStart    *)
(* and LongPressOngoing have no effect.                                    *)
C19_PowerOffRule ==
    [][SucceedingDispatch /\ DispatchedMessage.button_id = "PowerOff"
       => IF DispatchedMessage.device_action \in CompletedPress
          THEN /\ Mutations = <<TurnOff>>
               /\ cache' = Some([scene |-> RoomStateFound.scene,
                                  brightness |-> Nothing,
                                  on |-> FALSE])
          ELSE NoEffect]_vars

(* two messages in a row that turn the room off, or that turn it on *)
SamePowerMessage(m1, m2) ==
    \/ /\ m1.button_id = "PowerOff" /\ m1.device_action \in CompletedPress
       /\ m2.button_id = "PowerOff" /\ m2.device_action \in CompletedPress
    \/ /\ m1.button_id = "PowerOn" /\ m1.device_action = "SinglePressComplete"
       /\ m2.button_id = "PowerOn" /\ m2.device_action = "SinglePressComplete"

----------------------------------------------------------------------------
(* The two step functions on their own: a brightness anywhere between the  *)
(* minimum and the maximum, and the function of Up or of Down applied to   *)
(* it again and again.  The scenario keeps the button and the brightness   *)
(* the run started from.                                                    *)

Brightnesses == Percent(MINIMUM_BRIGHTNESS_PERCENT)..Percent(MAXIMUM_BRIGHTNESS_PERCENT)

InitStep ==
    /\ CodecIdle
    /\ RouterIdle
    /\ DispatcherIdle
    /\ ConnectionIdle
    /\ topology = "FiveButtonPico"
    /\ room = RoomOf(1)
    /\ overflow_checks = TRUE
    /\ cache = Nothing
    /\ scenario \in [button_id : {"Up", "Down"}, release_at : {0},
                     light : {[on |-> TRUE, brightness |-> v] : v \in Brightnesses}]
    /\ light = scenario.light

(* target_brightness = update_fn(target_brightness) *)
BrightnessStep ==
    /\ light' = [light EXCEPT !.brightness = update_fn(scenario.button_id, @)]
    /\ UNCHANGED <<received, cache, calls, dispatcher_alive, in_flight, notDisp>>

NextStep == BrightnessStep

SpecStep == InitStep /\ [][NextStep]_vars

Interior(v) == Percent(MINIMUM_BRIGHTNESS_PERCENT) < v /\ v < Percent(MAXIMUM_BRIGHTNESS_PERCENT)
MultipleOfStep(v) == v % Percent(BRIGHTNESS_UPDATE_AMOUNT) = 0

StepContract(w) ==
    /\ Percent(MINIMUM_BRIGHTNESS_PERCENT) <= w
    /\ w <= Percent(MAXIMUM_BRIGHTNESS_PERCENT)
    /\ Interior(w) => MultipleOfStep(w)

(* C21: for every brightness v from 1 to 100 percent, the step up and the  *)
(* step down of v lie between 1 and 100 percent and are multiples of 5     *)
(* percent when strictly between the two; and for v a multiple of 5        *)
(* percent strictly between the two, up(down(v)) = v and down(up(v)) = v.  *)
C21_StepContract ==
    LET v == light.brightness
    IN /\ v \in Brightnesses
       /\ StepContract(get_bounded_next_higher_brightness_val(v))
       /\ StepContract(get_bounded_next_lower_brightness_val(v))
       /\ (Interior(v) /\ MultipleOfStep(v)) =>
            /\ get_bounded_next_higher_brightness_val(get_bounded_next_lower_brightness_val(v)) = v
            /\ get_bounded_next_lower_brightness_val(get_bounded_next_higher_brightness_val(v)) = v

(* a step up from a brightness that is no multiple of 5 percent has        *)
(* reached one that is, strictly inside the range                          *)
C21_Witness ==
    /\ scenario.button_id = "Up"
    /\ ~MultipleOfStep(scenario.light.brightness)
    /\ light.brightness = get_bounded_next_higher_brightness_val(scenario.light.brightness)
    /\ Interior(light.brightness) /\ MultipleOfStep(light.brightness)

----------------------------------------------------------------------------
(* The dispatcher on messages of Up and Down: a room that is off, or on at *)
(* a brightness on or off the multiples of 5 percent and near either end,  *)
(* cached or not.  The scenario keeps the light the run started from.      *)

DimButtons == {"Up", "Down"}
DimLights ==
    {[on |-> TRUE, brightness |-> b] : b \in {Percent(3), Percent(42) + 3, Percent(50), Percent(97) + 5}}
    \cup {[on |-> FALSE, brightness |-> Percent(50)]}

InitDim ==
    /\ CodecIdle
    /\ RouterIdle
    /\ DispatcherIdle
    /\ ConnectionIdle
    /\ topology \in RemoteKinds
    /\ room = RoomOf(1)
    /\ overflow_checks = TRUE
    /\ light \in DimLights
    /\ scenario = [NoScenario EXCEPT !.light = light]
    /\ cache \in {Nothing} \cup {Some(build_cache_entry(sc, light)) : sc \in DispScenes}

NextDim ==
    \/ \E r \in RemoteIds, b \in DimButtons, a \in DeviceActions : GestureSent(r, b, a)
    \/ Recv
    \/ \E get_ok, put_ok, tail_ok \in BOOLEAN : Dispatch(get_ok, put_ok, tail_ok)

SpecDim == InitDim /\ [][NextDim]_vars

(* next(b) for the button of the message *)
NextBrightness(button_id, b) ==
    IF button_id = "Up" THEN get_bounded_next_higher_brightness_val(b)
    ELSE get_bounded_next_lower_brightness_val(b)

(* C22: Up or Down on a room that is on at brightness b, every request     *)
(* succeeding: SinglePressComplete, LongPressStart and LongPressOngoing    *)
(* call update_brightness with next(b) and leave the cache entry with      *)
(* brightness next(b); DoublePressComplete does so with next(next(b)); the *)
(* on flag and the scene of the entry are as the handler found them.       *)
C22_BrightnessRule ==
    [][(/\ SucceedingDispatch
        /\ DispatchedMessage.button_id \in {"Up", "Down"}
        /\ DispatchedMessage.device_action # "LongPressComplete"
        /\ RoomStateFound.on
        /\ RoomStateFound.brightness # Nothing)
       => LET b == unwrap(RoomStateFound.brightness)
              once == NextBrightness(DispatchedMessage.button_id, b)
              new_brightness ==
                  IF DispatchedMessage.device_action = "DoublePressComplete"
                  THEN NextBrightness(DispatchedMessage.button_id, once)
                  ELSE once
          IN /\ Mutations = <<UpdateBrightness(new_brightness)>>
             /\ cache' = Some([scene |-> RoomStateFound.scene,
                                brightness |-> Some(new_brightness),
                                on |-> TRUE])]_vars

(* a single press of Up at 42.3 percent has set 45 percent, and a double   *)
(* press of Down after it 35 percent                                        *)
C22_Witness ==
    /\ scenario.light = [on |-> TRUE, brightness |-> Percent(42) + 3]
    /\ received = 2
    /\ channel[1].button_id = "Up" /\ channel[1].device_action = "SinglePressComplete"
    /\ channel[2].button_id = "Down" /\ channel[2].device_action = "DoublePressComplete"
    /\ SelectSeq(calls, LAMBDA c : c.request = "update_brightness")
         = <<UpdateBrightness(Percent(45)), UpdateBrightness(Percent(35))>>
    /\ cache # Nothing /\ unwrap(cache).brightness = Some(Percent(35)) /\ unwrap(cache).on

----------------------------------------------------------------------------
(* The dispatcher on messages of Favorite: a room of one scene or more, a  *)
(* build with or without overflow checks, a cache that is empty or holds   *)
(* an entry with no scene or a scene of the room, and as many messages as  *)
(* the room has scenes.  The scenario keeps the light and the cache entry  *)
(* the run started from.                                                    *)

Rooms == {RoomOf(n) : n \in 1..MaxScenes}
SceneCount == Len(room.scenes)

InitFav ==
    /\ CodecIdle
    /\ RouterIdle
    /\ DispatcherIdle
    /\ ConnectionIdle
    /\ topology \in RemoteKinds
    /\ room \in Rooms
    /\ overflow_checks \in BOOLEAN
    /\ light \in DispLights
    /\ cache \in {Nothing} \cup
                 {Some(build_cache_entry(sc, light)) :
                     sc \in {Nothing} \cup {Some(room.scenes[k]) : k \in 1..Len(room.scenes)}}
    /\ scenario = [button_id |-> "Favorite", release_at |-> 0, light |-> light, cache |-> cache]

(* a watcher task sends a message of Favorite *)
FavoriteSent(r, a) ==
    /\ Len(channel) < SceneCount
    /\ channel' = Append(channel, [device_action |-> a, remote_id |-> r,
                                   button_id |-> "Favorite", from |-> 0])
    /\ UNCHANGED <<now, watchers, remote_watchers, router_alive, nevents, last_event, notRec>>

NextFav ==
    \/ \E r \in RemoteIds, a \in DeviceActions : FavoriteSent(r, a)
    \/ Recv
    \/ \E get_ok, put_ok, tail_ok \in BOOLEAN : Dispatch(get_ok, put_ok, tail_ok)

SpecFav == InitFav /\ [][NextFav]_vars

(* Favorite is handled for a five-button remote, the room is on and the    *)
(* cache holds its entry with the scene at index i of the room, from 0     *)
LitWithScene(entry) == entry # Nothing /\ unwrap(entry).on /\ unwrap(entry).scene # Nothing
SceneIndex(entry) ==
    (CHOOSE k \in 1..SceneCount : room.scenes[k] = unwrap(unwrap(entry).scene)) - 1
SceneAt(i) == room.scenes[i + 1]

FavoriteDispatch(actions) ==
    /\ SucceedingDispatch
    /\ topology = "FiveButtonPico"
    /\ DispatchedMessage.button_id = "Favorite"
    /\ DispatchedMessage.device_action \in actions
    /\ LitWithScene(cache)

HueDevices(scene) == {j \in 1..Len(scene.devices) : scene.devices[j].type = "HueScene"}

(* recall_scene once for each Hue scene of the target, at the brightness,  *)
(* and no other mutation                                                    *)
RecalledOnce(scene, brightness) ==
    /\ Len(Mutations) = Cardinality(HueDevices(scene))
    /\ \A m \in 1..Len(Mutations) :
          Mutations[m].request = "recall_scene" /\ Mutations[m].brightness = Some(brightness)
    /\ \A j \in HueDevices(scene) :
          Cardinality({m \in 1..Len(Mutations) : Mutations[m].id = scene.devices[j].id}) = 1

(* C23: Favorite on a room that is on with the cached scene at index i of *)
(* N: SinglePressComplete targets scenes[(i+1) mod N], LongPressComplete   *)
(* scenes[0]; recall_scene is called once for each Hue scene device of the *)
(* target with the current brightness, and the cache entry gets the target *)
(* as its scene and keeps on and brightness.                                *)
C23_FavoriteRule ==
    [][FavoriteDispatch({"SinglePressComplete", "LongPressComplete"})
       => LET i == SceneIndex(cache)
              target == IF DispatchedMessage.device_action = "SinglePressComplete"
                        THEN SceneAt((i + 1) % SceneCount)
                        ELSE SceneAt(0)
          IN /\ RecalledOnce(target, unwrap(unwrap(cache).brightness))
             /\ cache' = Some([unwrap(cache) EXCEPT !.scene = Some(target)])]_vars

(* a single press has gone from the last scene of three to the first, and *)
(* one from the first to the second with its two Hue scenes                *)
C23_Witness ==
    /\ SceneCount = 3
    /\ LitWithScene(scenario.cache) /\ SceneIndex(scenario.cache) = 2
    /\ received = 2 /\ dispatcher_alive
    /\ \A k \in 1..2 : channel[k].device_action = "SinglePressComplete"
    /\ cache = Some([unwrap(scenario.cache) EXCEPT !.scene = Some(SceneAt(1))])
    /\ Len(SelectSeq(calls, LAMBDA c : c.request = "recall_scene")) = 3

(* C24: Favorite DoublePressComplete on a lit room with the scene at index *)
(* i of N targets scenes[(i-1) mod N], the Euclidean remainder, so from    *)
(* i = 0 scenes[N-1], and nothing panics.                                   *)
C24_PreviousScene ==
    [][FavoriteDispatch({"DoublePressComplete"})
       => LET i == SceneIndex(cache)
              target == SceneAt((i + SceneCount - 1) % SceneCount)
          IN /\ dispatcher_alive'
             /\ RecalledOnce(target, unwrap(unwrap(cache).brightness))
             /\ cache' = Some([unwrap(cache) EXCEPT !.scene = Some(target)])]_vars

(* the run started from a lit room with a cached scene, and every message  *)
(* handled so far is a SinglePressComplete of Favorite                      *)
RotationRun ==
    /\ topology = "FiveButtonPico"
    /\ LitWithScene(scenario.cache)
    /\ \A k \in 1..received :
          channel[k].button_id = "Favorite" /\ channel[k].device_action = "SinglePressComplete"

----------------------------------------------------------------------------
(* Failures, checked under SpecDisp *)

(* a step of the dispatcher on a message, and one in which some request    *)
(* fails: it differs from the step in which every request succeeds         *)
DispatchStep == \E get_ok, put_ok, tail_ok \in BOOLEAN : Dispatch(get_ok, put_ok, tail_ok)
FailingDispatch == DispatchStep /\ ~SucceedingDispatch

(* C26: when a request made for a message fails, the cache after the      *)
(* message is the cache before it.                                          *)
C26_FailureKeepsCache ==
    [][FailingDispatch => cache' = cache]_vars

(* What holds of C26: when a request of the handler fails the cache is    *)
(* left alone.  The request that fails in the other case is the            *)
(* get_grouped_light that dispatcher_loop makes after the handler.         *)
HandlerFailureKeepsCache ==
    [][((\E get_ok, put_ok \in BOOLEAN : Dispatch(get_ok, put_ok, TRUE)) /\ ~SucceedingDispatch)
       => cache' = cache]_vars

(* C27: no message ends the dispatcher task: after a message whose        *)
(* request failed the task is there to take the next one.                  *)
C27_DispatcherSurvives ==
    dispatcher_alive

(* C28: for a two-button remote PowerOn and PowerOff follow their rules   *)
(* (turn_on for a single press on a room that is off, turn_off for a       *)
(* completed press, nothing else), and a message of Up, Down or Favorite   *)
(* is dropped: no request, no cache write, and the dispatcher goes on.     *)
C28_TwoButtonRule ==
    [][(SucceedingDispatch /\ topology = "TwoButtonPico")
       => /\ dispatcher_alive'
          /\ CASE DispatchedMessage.button_id = "PowerOn" ->
                    IF DispatchedMessage.device_action = "SinglePressComplete" /\ ~RoomStateFound.on
                    THEN Mutations = <<TurnOn>> /\ cache' # Nothing /\ unwrap(cache').on
                    ELSE NoEffect
               [] DispatchedMessage.button_id = "PowerOff" ->
                    IF DispatchedMessage.device_action \in CompletedPress
                    THEN Mutations = <<TurnOff>> /\ cache' # Nothing /\ ~unwrap(cache').on
                    ELSE NoEffect
               [] DispatchedMessage.button_id \in {"Up", "Down", "Favorite"} ->
                    NewCalls = <<>> /\ cache' = cache]_vars

(* C29: each message is handled on a task of its own: while the handler   *)
(* of one message awaits its request, the dispatcher can take the next     *)
(* message waiting in the channel.                                          *)
C29_HandlersOverlap ==
    (dispatcher_alive /\ in_flight /\ received + 1 < Len(channel)) => ENABLED Recv


----------------------------------------------------------------------------
(* The channel with its capacity.  action_sender is a tokio mpsc::Sender:   *)
(* send(message).await completes at once while the channel holds fewer      *)
(* than ChannelCapacity messages the dispatcher has not taken, and suspends *)
(* the task otherwise; the suspended tasks are served in the order they     *)
(* began to wait.  The capacity is chosen where the channel is created.     *)

ChannelCapacity == 1

(* the messages sent and not yet taken by message_receiver.recv() *)
Queued == Len(channel) - received - (IF in_flight THEN 1 ELSE 0)

Waiting(i) == \E k \in 1..Len(waiters) : waiters[k] = i

(* send(message) is polled: the task joins the queue for a place *)
SendBegin(i) ==
    /\ watchers[i].pc \in {"first_send", "loop_send"}
    /\ ~Waiting(i)
    /\ waiters' = Append(waiters, i)
    /\ UNCHANGED <<recVars, codecVars, dispVars, connVars, scenario, configVars, kindVars>>

(* The first task of the queue gets a place: its message enters the        *)
(* channel, and the task returns if its local finished is set, else sleeps. *)
SendComplete(i) ==
    /\ waiters # <<>>
    /\ Head(waiters) = i
    /\ Queued < ChannelCapacity
    /\ waiters' = Tail(waiters)
    /\ channel' = Append(channel, DeviceActionMessageNew(i, watchers[i].device_action_message))
    /\ watchers' = [watchers EXCEPT ![i] =
                       IF @.loop_finished
                       THEN [@ EXCEPT !.pc = "done"]
                       ELSE [@ EXCEPT !.pc = "loop_sleep",
                                      !.wake = now + REMOTE_WATCHER_LOOP_SLEEP_DURATION]]
    /\ UNCHANGED <<now, remote_watchers, router_alive, nevents, last_event,
                   codecVars, dispVars, connVars, scenario, configVars, kindVars>>

(* Time passes while tasks sleep or wait for a place: not past a sleep     *)
(* that has ended, a send that can complete, or a message the dispatcher   *)
(* is free to take.  A handler may take any time to return.                 *)
ChanTick ==
    /\ now < MaxTime
    /\ \E i \in 1..Len(watchers) : Sleeping(i) \/ Waiting(i)
    /\ \A i \in 1..Len(watchers) :
          /\ watchers[i].pc \in {"first_send", "loop_send"} => Waiting(i)
          /\ Sleeping(i) => watchers[i].wake > now
    /\ waiters # <<>> => Queued >= ChannelCapacity
    /\ in_flight \/ received = Len(channel) \/ ~dispatcher_alive
    /\ now' = Min({now + TimeStep} \cup {watchers[i].wake : i \in {j \in 1..Len(watchers) : Sleeping(j)}})
    /\ UNCHANGED <<watchers, remote_watchers, channel, router_alive, nevents, last_event,
                   notRec>>

ChanButton == "Up"
ChanEvents == 3

RouterChan == nevents < ChanEvents

NextChan ==
    \/ \E r \in RemoteIds : RouterChan /\ RouterVacantRelease(r, ChanButton)
    \/ \E r \in RemoteIds : RouterChan /\ RouterVacantPress(r, ChanButton)
    \/ \E r \in RemoteIds, a \in ButtonActions : RouterChan /\ RouterOccupiedFinished(r, ChanButton, a)
    \/ \E r \in RemoteIds, a \in ButtonActions : RouterChan /\ RouterOccupiedUnfinished(r, ChanButton, a)
    \/ \E i \in 1..Len(watchers) : FirstCheck(i)
    \/ \E i \in 1..Len(watchers) : LoopCheck(i)
    \/ \E i \in 1..Len(watchers) : SendBegin(i)
    \/ \E i \in 1..Len(watchers) : SendComplete(i)
    \/ ChanTick
    \/ Recv
    \/ Dispatch(TRUE, TRUE, TRUE)

SpecChan == Init /\ [][NextChan]_vars

(* C30: the dispatcher takes the messages in the order they were sent, and  *)
(* on one remote every message of an earlier gesture is sent before any    *)
(* message of a later gesture: in the channel, the messages of one remote  *)
(* are in the order in which the router started their tasks.                *)
C30_GestureOrder ==
    \A p \in 1..Len(channel), q \in 1..Len(channel) :
        (p < q /\ channel[p].remote_id = channel[q].remote_id)
            => channel[p].from <= channel[q].from


----------------------------------------------------------------------------
(* The dispatcher with the five buttons: a remote of either kind, a room   *)
(* of two scenes that is on or off, a cache that is empty or holds the     *)
(* entry an earlier message left, and messages sent one after the other,   *)
(* each when the one before has been handled.                               *)

RoomLights == {[on |-> o, brightness |-> Percent(50)] : o \in BOOLEAN}

InitRoom ==
    /\ CodecIdle
    /\ RouterIdle
    /\ DispatcherIdle
    /\ ConnectionIdle
    /\ topology \in RemoteKinds
    /\ room = RoomOf(2)
    /\ overflow_checks = TRUE
    /\ light \in RoomLights
    /\ scenario = [NoScenario EXCEPT !.light = light]
    /\ cache \in {Nothing} \cup
                 {Some(build_cache_entry(sc, light)) : sc \in {Nothing, Some(room.scenes[1])}}

MessageSent(r, b, a) ==
    /\ received = Len(channel)
    /\ GestureSent(r, b, a)

NextRoom ==
    \/ \E r \in RemoteIds, b \in ButtonIds, a \in DeviceActions : MessageSent(r, b, a)
    \/ Recv
    \/ \E get_ok, put_ok, tail_ok \in BOOLEAN : Dispatch(get_ok, put_ok, tail_ok)

SpecRoom == InitRoom /\ [][NextRoom]_vars


----------------------------------------------------------------------------
(* Properties of the dispatcher, checked under SpecRoom *)

(* a step of the dispatcher that finds no entry in the cache *)
MissDispatch == DispatchStep /\ cache = Nothing

(* the handler returns an error for the kind of the remote before it asks  *)
(* for the state of the room                                                *)
KindRefused ==
    topology = "TwoButtonPico" /\ DispatchedMessage.button_id \in {"PowerOn", "PowerOff", "Favorite"}

(* the state the lighting API reports for the grouped light *)
ReportedState ==
    [scene |-> Nothing,
     brightness |-> IF light.on THEN Some(light.brightness) ELSE Nothing,
     on |-> light.on]

(* the entry written agrees with the reported state in every field the     *)
(* handler of the button does not set                                       *)
WrittenFromReported ==
    cache' # Nothing =>
        LET entry == unwrap(cache')
            b == DispatchedMessage.button_id
        IN /\ b \in {"Up", "Down"} => entry.scene = Nothing /\ entry.on = ReportedState.on
           /\ b = "PowerOff" => entry.scene = Nothing /\ entry.brightness = ReportedState.brightness
           /\ b = "PowerOn" => entry.scene = Nothing
           /\ b = "Favorite" => entry.brightness = ReportedState.brightness
                                /\ entry.on = ReportedState.on

(* what the handler does follows the reported state, when every request    *)
(* succeeds                                                                 *)
DecidedFromReported ==
    LET m == DispatchedMessage
    IN /\ m.button_id \in {"Up", "Down"} =>
              Mutations = IF light.on
                          THEN <<UpdateBrightness(target_brightness(m, light.brightness))>>
                          ELSE <<>>
       /\ m.button_id = "Favorite" => (~light.on => Mutations = <<>>)
       /\ (m.button_id = "Favorite" /\ light.on /\ m.device_action \in CompletedPress) =>
              /\ Mutations # <<>>
              /\ \A k \in 1..Len(Mutations) : Mutations[k].brightness = Some(light.brightness)
       /\ m.button_id = "PowerOn" =>
              Mutations = IF ~light.on /\ m.device_action = "SinglePressComplete"
                          THEN <<TurnOn>> ELSE <<>>

C32_OnHasBrightness ==
    /\ RoomStateFound.on => RoomStateFound.brightness # Nothing
    /\ cache # Nothing => (unwrap(cache).on => unwrap(cache).brightness # Nothing)

(* a PowerOn has turned on a room found off, and the entry it cached is on *)
(* with a brightness                                                        *)
C32_Witness ==
    /\ \E k \in 1..Len(calls) : calls[k] = TurnOn
    /\ cache # Nothing
    /\ unwrap(cache).on
    /\ unwrap(cache).brightness # Nothing


----------------------------------------------------------------------------
(* client/model/hue.rs, InternalHueDeviceKind::from_str.  A product name   *)
(* is a sequence of characters.                                             *)

LowerCaseLetters ==
    <<"a", "c", "d", "e", "g", "h", "i", "l", "m", "n", "o", "p", "r", "s", "t", "u", "w", "x", "y">>
UpperCaseLetters ==
    <<"A", "C", "D", "E", "G", "H", "I", "L", "M", "N", "O", "P", "R", "S", "T", "U", "W", "X", "Y">>

(* char::to_uppercase on the letters of the product names *)
to_uppercase(c) ==
    IF \E k \in 1..Len(LowerCaseLetters) : LowerCaseLetters[k] = c
    THEN UpperCaseLetters[CHOOSE k \in 1..Len(LowerCaseLetters) : LowerCaseLetters[k] = c]
    ELSE c

to_lowercase(c) ==
    IF \E k \in 1..Len(UpperCaseLetters) : UpperCaseLetters[k] = c
    THEN LowerCaseLetters[CHOOSE k \in 1..Len(UpperCaseLetters) : UpperCaseLetters[k] = c]
    ELSE c

(* s.split(' '): the words between the spaces, empty ones included *)
RECURSIVE split_words(_)
split_words(s) ==
    IF \A k \in 1..Len(s) : s[k] # " "
    THEN <<s>>
    ELSE LET k == Min({j \in 1..Len(s) : s[j] = " "})
         IN <<SubSeq(s, 1, k - 1)>> \o split_words(SubSeq(s, k + 1, Len(s)))

capitalizeNothing(word) == word

(* the closure of the map: the first character in upper case, the rest as  *)
(* it is                                                                    *)
capitalize(word) ==
    IF word = <<>> THEN <<>> ELSE <<to_uppercase(Head(word))>> \o Tail(word)

RECURSIVE join(_)
join(words) == IF words = <<>> THEN <<>> ELSE Head(words) \o join(Tail(words))

KindOk(kind) == [kind |-> "Ok", value |-> kind]
KindErr == [kind |-> "Err", value |-> "Unknown Kind"]

InternalHueDeviceKind_from_str(s) ==
    LET words == split_words(s)
        capitalized_camel_case == join([k \in 1..Len(words) |-> capitalize(words[k])])
    IN CASE capitalized_camel_case = <<"E", "x", "t", "e", "n", "d", "e", "d", "C", "o", "l", "o", "r", "L", "i", "g", "h", "t">> ->
           KindOk("ExtendedColorLight")
    [] capitalized_camel_case = <<"H", "u", "e", "C", "o", "l", "o", "r", "L", "a", "m", "p">> ->
           KindOk("HueColorLamp")
    [] capitalized_camel_case = <<"H", "u", "e", "C", "o", "l", "o", "r", "C", "a", "n", "d", "l", "e">> ->
           KindOk("HueColorCandle")
    [] capitalized_camel_case = <<"H", "u", "e", "D", "i", "m", "m", "e", "r", "S", "w", "i", "t", "c", "h">> ->
           KindOk("HueDimmerSwitch")
    [] capitalized_camel_case = <<"H", "u", "e", "L", "i", "g", "h", "t", "s", "t", "r", "i", "p", "O", "u", "t", "d", "o", "o", "r">> ->
           KindOk("HueLightstripOutdoor")
    [] capitalized_camel_case = <<"H", "u", "e", "L", "i", "g", "h", "t", "s", "t", "r", "i", "p", "P", "l", "u", "s">> ->
           KindOk("HueLightstripPlus")
    [] capitalized_camel_case = <<"H", "u", "e", "P", "l", "a", "y">> ->
           KindOk("HuePlay")
    [] capitalized_camel_case = <<"H", "u", "e", "W", "h", "i", "t", "e", "L", "a", "m", "p">> ->
           KindOk("HueWhiteLamp")
    [] capitalized_camel_case = <<"L", "u", "t", "r", "o", "n", "A", "u", "r", "o", "r", "a">> ->
           KindOk("LutronAurora")
    [] capitalized_camel_case = <<"P", "h", "i", "l", "i", "p", "s", "H", "u", "e">> ->
           KindOk("PhilipsHue")
    [] OTHER -> KindErr

(* The names deserialized: up to MaxNameWords words, each with its first   *)
(* letter in either case, with single spaces between them; an empty word   *)
(* stands for a doubled, leading or trailing space.                         *)
MaxNameWords == 3

NameWords ==
    {<<"h", "u", "e">>,
     <<"p", "l", "a", "y">>,
     <<"l", "a", "m", "p">>,
     <<"c", "o", "l", "o", "r">>,
     <<"w", "h", "i", "t", "e">>,
     <<>>,
     <<"h", "u", "e", "P", "l", "a", "y">>,
     <<"h", "U", "e">>}

WordsInEitherCase ==
    NameWords \cup {IF w = <<>> THEN w ELSE <<to_uppercase(Head(w))>> \o Tail(w) : w \in NameWords}

RECURSIVE join_with_spaces(_)
join_with_spaces(words) ==
    IF Len(words) = 1 THEN Head(words)
    ELSE Head(words) \o <<" ">> \o join_with_spaces(Tail(words))

(* serde hands a product_name to from_str *)
ProductNameRead ==
    /\ product_name = <<>>
    /\ \E n \in 1..MaxNameWords : \E words \in [1..n -> WordsInEitherCase] :
          /\ join_with_spaces(words) # <<>>
          /\ product_name' = join_with_spaces(words)
    /\ device_kind' = NoResult
    /\ UNCHANGED <<recVars, codecVars, dispVars, connVars, scenario, configVars, senderVars>>

ProductNameParse ==
    /\ product_name # <<>>
    /\ device_kind = NoResult
    /\ device_kind' = InternalHueDeviceKind_from_str(product_name)
    /\ UNCHANGED <<product_name, recVars, codecVars, dispVars, connVars, scenario, configVars,
                   senderVars>>

NextKind ==
    \/ ProductNameRead
    \/ ProductNameParse

SpecKind == Init /\ [][NextKind]_vars


----------------------------------------------------------------------------
(* Properties of InternalHueDeviceKind::from_str, checked under SpecKind *)

(* the variants of InternalHueDeviceKind, each with the letters of its name *)
KnownKinds ==
    {[value |-> "ExtendedColorLight",
      letters |-> <<"E", "x", "t", "e", "n", "d", "e", "d", "C", "o", "l", "o", "r", "L", "i", "g", "h", "t">>],
     [value |-> "HueColorLamp",
      letters |-> <<"H", "u", "e", "C", "o", "l", "o", "r", "L", "a", "m", "p">>],
     [value |-> "HueColorCandle",
      letters |-> <<"H", "u", "e", "C", "o", "l", "o", "r", "C", "a", "n", "d", "l", "e">>],
     [value |-> "HueDimmerSwitch",
      letters |-> <<"H", "u", "e", "D", "i", "m", "m", "e", "r", "S", "w", "i", "t", "c", "h">>],
     [value |-> "HueLightstripOutdoor",
      letters |-> <<"H", "u", "e", "L", "i", "g", "h", "t", "s", "t", "r", "i", "p", "O", "u", "t", "d", "o", "o", "r">>],
     [value |-> "HueLightstripPlus",
      letters |-> <<"H", "u", "e", "L", "i", "g", "h", "t", "s", "t", "r", "i", "p", "P", "l", "u", "s">>],
     [value |-> "HuePlay",
      letters |-> <<"H", "u", "e", "P", "l", "a", "y">>],
     [value |-> "HueWhiteLamp",
      letters |-> <<"H", "u", "e", "W", "h", "i", "t", "e", "L", "a", "m", "p">>],
     [value |-> "LutronAurora",
      letters |-> <<"L", "u", "t", "r", "o", "n", "A", "u", "r", "o", "r", "a">>],
     [value |-> "PhilipsHue",
      letters |-> <<"P", "h", "i", "l", "i", "p", "s", "H", "u", "e">>]}

(* the name with the first letter of its k-th word in the other case *)
swap_case(c) == IF to_uppercase(c) # c THEN to_uppercase(c) ELSE to_lowercase(c)

WithWordSwapped(name, k) ==
    LET words == split_words(name)
        swapped == [j \in 1..Len(words) |->
                       IF j = k /\ words[j] # <<>>
                       THEN <<swap_case(Head(words[j]))>> \o Tail(words[j])
                       ELSE words[j]]
    IN join_with_spaces(swapped)

(* position p of the name begins a word *)
WordStart(name, p) == name[p] # " " /\ (p = 1 \/ name[p - 1] = " ")

(* the name spells the letters but for spaces and for the case of the      *)
(* first letter of each word                                                *)
Spells(name, letters) ==
    LET places == {p \in 1..Len(name) : name[p] # " "}
        place(k) == CHOOSE p \in places : Cardinality({q \in places : q <= p}) = k
    IN /\ Cardinality(places) = Len(letters)
       /\ \A k \in 1..Len(letters) :
             \/ name[place(k)] = letters[k]
             \/ WordStart(name, place(k)) /\ to_uppercase(name[place(k)]) = letters[k]

HueColorLampNames ==
    {<<"H", "u", "e", " ", "C", "o", "l", "o", "r", " ", "L", "a", "m", "p">>,
     <<"H", "u", "e", " ", "c", "o", "l", "o", "r", " ", "l", "a", "m", "p">>}

(* C33: the kind parsed from a product name does not depend on the case of *)
(* the first letter of any of its words: "Hue Color Lamp" and "Hue color   *)
(* lamp" both give HueColorLamp, and a name that spells no known kind      *)
(* gives an error.                                                          *)
C33_FirstLetterCase ==
    device_kind # NoResult =>
        /\ \A k \in 1..Len(split_words(product_name)) :
              InternalHueDeviceKind_from_str(WithWordSwapped(product_name, k)) = device_kind
        /\ product_name \in HueColorLampNames => device_kind = KindOk("HueColorLamp")
        /\ \A known \in KnownKinds :
              Spells(product_name, known.letters) <=> device_kind = KindOk(known.value)
        /\ (\A known \in KnownKinds : ~Spells(product_name, known.letters)) <=> device_kind = KindErr

(* "Hue color lamp" has been parsed to HueColorLamp *)
C33_Witness ==
    /\ product_name = <<"H", "u", "e", " ", "c", "o", "l", "o", "r", " ", "l", "a", "m", "p">>
    /\ device_kind = KindOk("HueColorLamp")

(* a name that spells no kind has been parsed to an error *)
UnknownNameRefused ==
    /\ product_name = <<"h", "U", "e", " ", "p", "l", "a", "y">>
    /\ device_kind = KindErr


----------------------------------------------------------------------------
(* Properties of the watcher tasks, checked under Spec *)

(* C34: a pass of a watcher task, the first or a later one, that reads     *)
(* SecondPressAwaitingRelease sends no message, whatever the task sent     *)
(* before.                                                                  *)
C34_AwaitingSecondReleaseSilent ==
    [][\A i \in Watchers :
          ((FirstPassStep(i) \/ LoopPassStep(i))
              /\ watchers[i].h.button_state = "SecondPressAwaitingRelease")
          => watchers'[i].pc \notin {"first_send", "loop_send"}]_vars


----------------------------------------------------------------------------
(* Properties of the handlers of Up and Down, checked under SpecDim *)

(* C35: a LongPressComplete on Up or Down has no effect: no                *)
(* update_brightness request and no cache write.                            *)
C35_LongPressCompleteNoEffect ==
    [][(DispatchStep
          /\ DispatchedMessage.button_id \in {"Up", "Down"}
          /\ DispatchedMessage.device_action = "LongPressComplete")
       => (Mutations = <<>> /\ cache' = cache)]_vars


----------------------------------------------------------------------------
(* Properties of the handlers of Up, Down and Favorite, checked under      *)
(* SpecRoom                                                                *)

(* C36: when the state found for the room is off, an Up, Down or Favorite  *)
(* message, whatever its action, makes no lighting mutation and no cache   *)
(* write.                                                                   *)
C36_OffRoomUntouched ==
    [][(DispatchStep
          /\ DispatchedMessage.button_id \in {"Up", "Down", "Favorite"}
          /\ ~RoomStateFound.on)
       => NoEffect]_vars

(* a PowerOff has turned the room off and a Favorite press was handled     *)
(* after it: nothing but the turn_off was asked of the lighting API         *)
C36_Witness ==
    /\ topology = "FiveButtonPico"
    /\ received = 2
    /\ dispatcher_alive
    /\ channel[1].button_id = "PowerOff"
    /\ channel[2].button_id = "Favorite"
    /\ channel[2].device_action = "SinglePressComplete"
    /\ scenario.light.on
    /\ cache # Nothing
    /\ ~unwrap(cache).on
    /\ \E k \in 1..Len(calls) : calls[k] = TurnOff
    /\ \A k \in 1..Len(calls) : calls[k].request \in {"get_grouped_light", "turn_off"}


----------------------------------------------------------------------------
(* Favorite on a room that is on with no scene known, checked under        *)
(* SpecFav                                                                 *)

(* a Favorite message is handled for a five-button remote, every request   *)
(* succeeds, and the state found is on with no scene: built on a cache     *)
(* miss, or cached without one                                              *)
SceneAbsentDispatch ==
    /\ SucceedingDispatch
    /\ topology = "FiveButtonPico"
    /\ DispatchedMessage.button_id = "Favorite"
    /\ RoomStateFound.on
    /\ RoomStateFound.scene = Nothing

(* C37: for Favorite on a lit room with no active scene the index is taken *)
(* as 0: SinglePressComplete targets scenes[1 mod N], DoublePressComplete  *)
(* scenes[N-1], LongPressComplete scenes[0], and LongPressStart and        *)
(* LongPressOngoing make no recall_scene call and no cache change.         *)
C37_AbsentSceneIsIndexZero ==
    [][SceneAbsentDispatch
       => LET a == DispatchedMessage.device_action
              brightness == unwrap(RoomStateFound.brightness)
              target == CASE a = "SinglePressComplete" -> SceneAt(1 % SceneCount)
                          [] a = "DoublePressComplete" -> SceneAt(SceneCount - 1)
                          [] OTHER -> SceneAt(0)
          IN IF a \in {"LongPressStart", "LongPressOngoing"}
             THEN NoEffect
             ELSE /\ RecalledOnce(target, brightness)
                  /\ cache' = Some([RoomStateFound EXCEPT !.scene = Some(target)])]_vars

(* What the code does in that case: whatever the action, the target is the *)
(* first scene of the room.                                                 *)
AbsentSceneGoesToFirst ==
    [][SceneAbsentDispatch
       => /\ RecalledOnce(SceneAt(0), unwrap(RoomStateFound.brightness))
          /\ cache' = Some([RoomStateFound EXCEPT !.scene = Some(SceneAt(0))])]_vars


----------------------------------------------------------------------------
(* caseta/connection.rs, read_frame: one read of the socket fills the      *)
(* buffer with what the hub has written, one line or several, and the      *)
(* whole buffer is handed to Message::from_str.                             *)

MaxBufferLines == 2

WireEvents ==
    [remote_id : RemoteIds, button_id : WireButtonIds, action_id : WireActionIds]

RECURSIVE BufferOf(_)
BufferOf(events) ==
    IF events = <<>> THEN <<>>
    ELSE WireLine(Head(events).remote_id, Head(events).button_id, Head(events).action_id)
         \o BufferOf(Tail(events))

(* self.connection.read_buf(&mut buffer) returns with the lines of events *)
ReadBuffer(events) ==
    /\ codec_pc = "idle"
    /\ codec_pc' = "read"
    /\ codec_line' = BufferOf(events)
    /\ codec_wire' = Head(events)
    /\ UNCHANGED <<codec_result, notCodec>>

NextBuffer ==
    \/ \E n \in 1..MaxBufferLines : \E events \in [1..n -> WireEvents] : ReadBuffer(events)
    \/ CodecParse

SpecBuffer == Init /\ [][NextBuffer]_vars

(* the lines of a buffer, each with its line end *)
RECURSIVE BufferLines(_)
BufferLines(s) ==
    IF s = <<>> THEN <<>>
    ELSE IF \E k \in 1..Len(s) : s[k] = "\n"
    THEN LET k == Min({j \in 1..Len(s) : s[j] = "\n"})
         IN <<SubSeq(s, 1, k)>> \o BufferLines(SubSeq(s, k + 1, Len(s)))
    ELSE <<s>>

(* the frames read_frame hands to the router for the buffer *)
FramesReturned == IF codec_result.kind = "Ok" THEN <<codec_result>> ELSE <<>>

(* C38: when one read returns a buffer of two or more complete lines, each *)
(* line yields its own frame and the events reach the router in the order  *)
(* of the lines; none is lost, merged or turned into an error.             *)
C38_EveryLineFramed ==
    codec_pc = "parsed" =>
        LET lines == BufferLines(codec_line)
        IN FramesReturned = [k \in 1..Len(lines) |-> from_str(lines[k])]

(* What holds: a buffer of one line gives the frame of the line *)
SingleLineFramed ==
    (codec_pc = "parsed" /\ Len(BufferLines(codec_line)) = 1) =>
        FramesReturned = <<from_str(codec_line)>> /\ codec_result.type = "ButtonEvent"

(* a buffer of two or more lines makes from_str panic *)
SeveralLinesPanic ==
    (codec_pc = "parsed" /\ Len(BufferLines(codec_line)) >= 2) => codec_result = Panic

====
